---- MODULE Spec2Model ----
(***************************************************************************)
(* Scheduling and delivery engine of the Telegram automation tool:         *)
(* the worker's scheduler loop (worker/worker.py), the admin API that      *)
(* creates and edits scheduled messages (backend/app.py) and the MongoDB   *)
(* collections they share (scheduled_messages, deliveries, chats).         *)
(*                                                                         *)
(* Instants are natural numbers (one unit = one clock step); None is Null. *)
(* Every MongoDB operation and every provider send of a poller is one      *)
(* step, so that other processes interleave exactly where the code lets    *)
(* them.                                                                   *)
(***************************************************************************)
EXTENDS Integers, Sequences, FiniteSets, TLC

VARIABLES
    now,         \* wall clock, datetime.now(timezone.utc)
    scheduled,   \* scheduled_messages collection: _id -> document
    deliveries,  \* deliveries collection: sequence of rows, in insertion order
    chats,       \* chats collection (destination registry): set of rows
    provider,    \* log of send-pipeline invocations, in order
    w,           \* per poller process: the locals of scheduler_loop
    api,         \* the in-flight PATCH request of the admin API (or idle)
    crashes,     \* number of poller process deaths so far
    requests,    \* number of admin API requests received so far
    persisted,   \* history: per item, the nextRunAt the last final update of a
                 \* tick stored, and whether the API has rewritten it since
    pipe,        \* the send pipeline invocation in flight (send_text_safe,
                 \* send_images_safe): its locals, its provider calls, its
                 \* sleeps and the scratch files on disk
    calc,        \* a next-run computation for a once schedule: its input and
                 \* what each of the two calculators returned
    disc,        \* chat discovery: the group-class chats registered so far and
                 \* whether the last registration raised
    ins          \* operator chat script: PENDING_INSERT, the timeout tasks, the
                 \* scheduled documents the insert sessions created, its clock

vars == <<now, scheduled, deliveries, chats, provider, w, api, crashes, requests,
          persisted, pipe, calc, disc, ins>>

----------------------------------------------------------------------------
(* Bounds of the model *)

MaxTime == 2
MaxRequests == 2
MaxSends == 2
MaxCrashes == 1
MaxTargets == 2
MaxUrls == 11
MaxFaults == 2
MaxFloods == 2
MaxInserts == 2
MaxClock == 100

Null == 0 - 1

\* No pipeline invocation yet; no computation yet
NoPipe == [pc |-> "idle"]
NoCalc == [pc |-> "idle"]

\* No chat discovered yet
NoDisc == [seen |-> {}, raised |-> FALSE]

\* The operator chat script as it starts: no pending insert, no timeout task
NoInsert == [pending |-> <<>>, tasks |-> <<>>, docs |-> <<>>, opened |-> 0, clock |-> 0]

Pollers == {"p1", "p2"}
MainPoller == "p1"

----------------------------------------------------------------------------
(* Sequences and sets *)

Range(s) == {s[i] : i \in 1..Len(s)}

Min(S) == CHOOSE x \in S : \A y \in S : x <= y

RECURSIVE Sorted(_)
\* sorted(set(...)): the ascending list of a finite set of integers
Sorted(S) == IF S = {} THEN <<>> ELSE <<Min(S)>> \o Sorted(S \ {Min(S)})

\* A cursor without a limit
TakeAll(s, n) == s

\* cursor.limit(n): the first n elements
Take(s, n) == IF Len(s) <= n THEN s ELSE SubSeq(s, 1, n)

----------------------------------------------------------------------------
(* Time: instants, timezones and cron expressions *)

\* A timezone is named by its zone id; TzBehind is how many clock units local
\* time lags UTC (local = utc - TzBehind, America/Los_Angeles lags UTC).
Tzs == {"UTC", "America/Los_Angeles"}
TzBehind(tz) == IF tz = "UTC" THEN 0 ELSE 1
TZ_NAME == "America/Los_Angeles"

\* A cron expression is Null (missing), BadCron (croniter rejects it) or the
\* period n > 0 of "every n-th unit" (matching the local instants k * n).
BadCron == 0

\* get_next() taken as the first matching instant at or after t
CronNextInclusive(cron, t) == IF t % cron = 0 THEN t ELSE ((t \div cron) + 1) * cron

\* croniter(cron, t).get_next(): the first matching instant strictly after t
CronNext(cron, t) == ((t \div cron) + 1) * cron

Ok(v) == [ok |-> TRUE, val |-> v]
Raise(e) == [ok |-> FALSE, val |-> e]

\* app._local_input_to_utc: a naive datetime of the UI is local time in tz
LocalInputToUtc(dt, tz) == IF dt = Null THEN Null ELSE dt + TzBehind(tz)

\* scheduling.compute_next_run_at at clock t
ComputeNextRunAt(schedule_type, run_at, cron, end_at, tz, t) ==
    IF tz \notin Tzs THEN Raise("ZoneInfoNotFoundError")
    ELSE IF schedule_type = "once"
    THEN IF run_at = Null THEN Raise("runAt is required for scheduleType='once'")
         ELSE Ok(run_at)
    ELSE IF cron = Null THEN Raise("cron is required for scheduleType='cron'")
    ELSE IF cron = BadCron THEN Raise("CroniterBadCronError")
    ELSE LET next_utc == CronNext(cron, t - TzBehind(tz)) + TzBehind(tz)
         IN  IF end_at # Null /\ next_utc > end_at THEN Ok(Null) ELSE Ok(next_utc)

\* worker.compute_next_run_at_utc with an occurrence equal to the cutoff taken
\* as past it
ComputeNextRunAtUtcCutoffExclusive(d, tz, t) ==
    IF d.scheduleType = "once"
    THEN LET run_at == IF d.runAt # Null THEN d.runAt ELSE d.nextRunAt
         IN  IF run_at = Null THEN Raise("Missing runAt for once schedule")
             ELSE IF d.endAt # Null /\ run_at > d.endAt THEN Ok(Null)
             ELSE Ok(run_at)
    ELSE IF d.cron = Null THEN Raise("Missing cron for cron schedule")
    ELSE IF d.cron = BadCron THEN Raise("CroniterBadCronError")
    ELSE LET next_utc == CronNext(d.cron, t - TzBehind(tz)) + TzBehind(tz)
         IN  IF d.endAt # Null /\ next_utc >= d.endAt THEN Ok(Null) ELSE Ok(next_utc)

\* worker.compute_next_run_at_utc(doc, tz) at clock t
ComputeNextRunAtUtc(d, tz, t) ==
    IF d.scheduleType = "once"
    THEN LET run_at == IF d.runAt # Null THEN d.runAt ELSE d.nextRunAt
         IN  IF run_at = Null THEN Raise("Missing runAt for once schedule")
             ELSE IF d.endAt # Null /\ run_at > d.endAt THEN Ok(Null)
             ELSE Ok(run_at)
    ELSE IF d.cron = Null THEN Raise("Missing cron for cron schedule")
    ELSE IF d.cron = BadCron THEN Raise("CroniterBadCronError")
    ELSE LET next_utc == CronNext(d.cron, t - TzBehind(tz)) + TzBehind(tz)
         IN  IF d.endAt # Null /\ next_utc > d.endAt THEN Ok(Null) ELSE Ok(next_utc)

\* scheduler_loop: tz = ZoneInfo(doc.tz or settings.TZ_NAME), settings.tz if that fails
WorkerTz(d) == IF d.tz \in Tzs THEN d.tz ELSE TZ_NAME

----------------------------------------------------------------------------
(* The scheduled_messages collection *)

\* The due query without its filter on enabled
IsDueIgnoringEnabled(d, t) ==
    /\ d.status \in {"scheduled", "processing", "null"}
    /\ d.nextRunAt # Null
    /\ d.nextRunAt <= t

\* The due query without its filter on status
IsDueAnyStatus(d, t) ==
    /\ d.enabled = TRUE
    /\ d.nextRunAt # Null
    /\ d.nextRunAt <= t

\* The due query of scheduler_loop: the filter of find()
IsDue(d, t) ==
    /\ d.enabled = TRUE
    /\ d.status \in {"scheduled", "processing", "null"}
    /\ d.nextRunAt # Null
    /\ d.nextRunAt <= t

BatchLimit == 25

\* The fields of a document that scheduler_loop and send_scheduled_to_targets
\* read from the copy the due query returned (doc["_id"], doc.get(...))
WorkerReads == {"id", "nextRunAt", "targetsMode", "targetChatIds", "imageUrls",
                "scheduleType", "runAt", "cron", "endAt", "tz"}

DocView(d) == [f \in WorkerReads |-> d[f]]

DueIds(coll, t) == {i \in DOMAIN coll : IsDue(coll[i], t)}

RECURSIVE SortOrders(_, _)
\* .sort("nextRunAt", 1): every order of the documents ids that is ascending
\* in nextRunAt (documents with the same nextRunAt in any order)
SortOrders(coll, ids) ==
    IF ids = {} THEN {<<>>}
    ELSE LET first == Min({coll[i].nextRunAt : i \in ids})
         IN  UNION {{<<i>> \o s : s \in SortOrders(coll, ids \ {i})} :
                        i \in {j \in ids : coll[j].nextRunAt = first}}

\* find(due).sort("nextRunAt", 1).limit(25): the batches the cursor may yield
DueBatches(coll, t) ==
    {Take([i \in 1..Len(s) |-> DocView(coll[s[i]])], BatchLimit) :
        s \in SortOrders(coll, DueIds(coll, t))}

\* update_one({"_id": id}, {"$set": upd}): no document, no change
UpdateOne(coll, id, upd) ==
    IF id \in DOMAIN coll THEN [coll EXCEPT ![id] = upd @@ @] ELSE coll

----------------------------------------------------------------------------
(* The deliveries collection and its unique index *)

Key(r) == <<r.scheduledId, r.chatId, r.runAt>>

\* A find_one that only looks for rows of status sent
FindDeliverySentOnly(rows, sid, cid, run_at) ==
    \E i \in 1..Len(rows) :
        Key(rows[i]) = <<sid, cid, run_at>> /\ rows[i].status = "sent"

\* find_one({"scheduledId": .., "chatId": .., "runAt": ..})
FindDelivery(rows, sid, cid, run_at) ==
    \E i \in 1..Len(rows) : Key(rows[i]) = <<sid, cid, run_at>>

\* No unique index on the collection
NoUniqueIndex(rows, row) == FALSE

\* The legacy index scheduledId_chatId_uniq, which leaves runAt out of the key
LegacyUniqueIndex(rows, row) ==
    \E i \in 1..Len(rows) :
        rows[i].scheduledId = row.scheduledId /\ rows[i].chatId = row.chatId

\* The unique index scheduledId_chatId_runAt_uniq rejects a second row of a key
DuplicateKey(rows, row) == \E i \in 1..Len(rows) : Key(rows[i]) = Key(row)

\* The rows insert_one writes; "by" is not a field of the code's row: it names
\* the poller that inserted it.
SentRow(sid, cid, run_at, msg_ids, p) ==
    [scheduledId |-> sid, chatId |-> cid, runAt |-> run_at,
     messageIds |-> msg_ids, status |-> "sent", error |-> "", by |-> p]

ErrorRow(sid, cid, run_at, e, p) ==
    [scheduledId |-> sid, chatId |-> cid, runAt |-> run_at,
     messageIds |-> <<>>, status |-> "error", error |-> e, by |-> p]

\* An upsert on the key in place of insert_one: the later writer's row replaces
\* the row of the triple
ReplaceOne(rows, row) ==
    IF DuplicateKey(rows, row)
    THEN [rows |-> [i \in 1..Len(rows) |->
                      IF Key(rows[i]) = Key(row) THEN row ELSE rows[i]],
          dup |-> FALSE]
    ELSE [rows |-> Append(rows, row), dup |-> FALSE]

\* insert_one under the unique index: the collection after the insert, and
\* whether DuplicateKeyError was raised
InsertOne(rows, row) ==
    IF DuplicateKey(rows, row)
    THEN [rows |-> rows, dup |-> TRUE]
    ELSE [rows |-> Append(rows, row), dup |-> FALSE]

----------------------------------------------------------------------------
(* Target resolution *)

\* A resolver that filters the explicit list in place: no set, no sort
ResolveTargetsInListOrder(d, registry) ==
    IF d.targetsMode = "explicit"
    THEN SelectSeq(d.targetChatIds, LAMBDA x : x < 0)
    ELSE Sorted({c.chatId : c \in {r \in registry : r.isActive /\ r.chatId < 0}})

\* An entry of targetChatIds that int() rejects (a document written by other
\* tooling or edited by hand: the API only stores integers)
NonNumeric == 1000

\* int(x) for x in targetChatIds: raises ValueError on such an entry
Resolvable(d) ==
    d.targetsMode = "explicit" => NonNumeric \notin Range(d.targetChatIds)

\* send_scheduled_to_targets: the destinations of one occurrence
ResolveTargets(d, registry) ==
    IF d.targetsMode = "explicit"
    THEN Sorted({x \in Range(d.targetChatIds) : x < 0})
    ELSE Sorted({c.chatId : c \in {r \in registry : r.isActive /\ r.chatId < 0}})

----------------------------------------------------------------------------
(* The poller: scheduler_loop and send_scheduled_to_targets.                *)
(* pc is the poller's position:                                             *)
(*   sleep    in asyncio.sleep (or not yet in the loop)                     *)
(*   loop     at the head of "for doc in cur"                               *)
(*   resolve  in send_scheduled_to_targets, before the targets are resolved *)
(*   find     at the head of "for cid in chat_ids" (find_one next)          *)
(*   send     before the send pipeline is awaited                           *)
(*   insert   pipeline returned, before insert_one of the sent row          *)
(*   error    pipeline raised, before insert_one of the error row           *)
(*   finish   send_scheduled_to_targets returned                            *)

NoDoc == [id |-> 0]

Idle == [pc |-> "sleep", now |-> Null, cur |-> <<>>, doc |-> NoDoc,
         run_at |-> Null, chat_ids |-> <<>>, msg_ids |-> <<>>, err |-> ""]

\* The outcomes of one send-pipeline invocation
PipelineOutcomes == {"ok", "DeliveryError"}

\* scheduler_loop: now = datetime.now(), cur = find(due).sort().limit()
Query(p) ==
    /\ w[p].pc = "sleep"
    /\ \E batch \in DueBatches(scheduled, now) :
         w' = [w EXCEPT ![p] = [Idle EXCEPT !.pc = "loop", !.now = now, !.cur = batch]]
    /\ UNCHANGED <<disc, ins, now, scheduled, deliveries, chats, provider, api, crashes, requests, persisted, pipe, calc>>

\* for doc in cur: exhausted, the tick ends in asyncio.sleep
EndTick(p) ==
    /\ w[p].pc = "loop"
    /\ w[p].cur = <<>>
    /\ w' = [w EXCEPT ![p] = Idle]
    /\ UNCHANGED <<disc, ins, now, scheduled, deliveries, chats, provider, api, crashes, requests, persisted, pipe, calc>>

\* A "mark processing" that sets the status only
MarkProcessingStatusOnly(t) == [status |-> "processing"]

\* The $set of "mark processing"
MarkProcessing(t) == [status |-> "processing", lastRunAt |-> t]

\* for doc in cur: run_at = doc.nextRunAt or now; mark processing
BeginDoc(p) ==
    /\ w[p].pc = "loop"
    /\ w[p].cur # <<>>
    /\ LET d == Head(w[p].cur)
       IN  /\ scheduled' = UpdateOne(scheduled, d.id, MarkProcessing(w[p].now))
           /\ w' = [w EXCEPT ![p].pc = "resolve",
                             ![p].doc = d,
                             ![p].run_at = IF d.nextRunAt # Null THEN d.nextRunAt
                                           ELSE w[p].now]
    /\ UNCHANGED <<disc, ins, now, deliveries, chats, provider, api, crashes, requests, persisted, pipe, calc>>

\* send_scheduled_to_targets: resolve the targets; none: no_targets and return.
\* A ValueError of int() is not caught before the "except Exception" around
\* the whole tick: the tick ends there.
Resolve(p) ==
    /\ w[p].pc = "resolve"
    /\ IF ~Resolvable(w[p].doc)
       THEN /\ scheduled' = scheduled
            /\ w' = [w EXCEPT ![p] = Idle]
       ELSE LET ids == ResolveTargets(w[p].doc, chats)
            IN  IF ids = <<>>
                THEN /\ scheduled' = UpdateOne(scheduled, w[p].doc.id,
                                               [status |-> "no_targets"])
                     /\ w' = [w EXCEPT ![p].pc = "finish"]
                ELSE /\ scheduled' = scheduled
                     /\ w' = [w EXCEPT ![p].pc = "find", ![p].chat_ids = ids]
    /\ UNCHANGED <<disc, ins, now, deliveries, chats, provider, api, crashes, requests, persisted, pipe, calc>>

\* for cid in chat_ids: exhausted, send_scheduled_to_targets returns
TargetsDone(p) ==
    /\ w[p].pc = "find"
    /\ w[p].chat_ids = <<>>
    /\ w' = [w EXCEPT ![p].pc = "finish"]
    /\ UNCHANGED <<disc, ins, now, scheduled, deliveries, chats, provider, api, crashes, requests, persisted, pipe, calc>>

\* A loop over the destinations that does not look for an existing row
FindOneNoSkip(p) ==
    /\ w[p].pc = "find"
    /\ w[p].chat_ids # <<>>
    /\ w' = [w EXCEPT ![p].pc = "send"]
    /\ UNCHANGED <<disc, ins, now, scheduled, deliveries, chats, provider, api, crashes, requests, persisted, pipe, calc>>

\* "skip if already delivered": find_one on the triple, continue if a row exists
FindOne(p) ==
    /\ w[p].pc = "find"
    /\ w[p].chat_ids # <<>>
    /\ IF FindDelivery(deliveries, w[p].doc.id, Head(w[p].chat_ids), w[p].run_at)
       THEN w' = [w EXCEPT ![p].chat_ids = Tail(@)]
       ELSE w' = [w EXCEPT ![p].pc = "send"]
    /\ UNCHANGED <<disc, ins, now, scheduled, deliveries, chats, provider, api, crashes, requests, persisted, pipe, calc>>

\* await send_images_safe / send_text_safe: returns the message ids or raises
Send(p) ==
    /\ w[p].pc = "send"
    /\ Len(provider) < MaxSends
    /\ \E outcome \in PipelineOutcomes :
         /\ provider' = Append(provider,
                [scheduledId |-> w[p].doc.id, chatId |-> Head(w[p].chat_ids),
                 runAt |-> w[p].run_at, by |-> p, ok |-> (outcome = "ok")])
         /\ IF outcome = "ok"
            THEN w' = [w EXCEPT ![p].pc = "insert", ![p].msg_ids = <<Len(provider')>>]
            ELSE w' = [w EXCEPT ![p].pc = "error", ![p].err = outcome]
    /\ UNCHANGED <<disc, ins, now, scheduled, deliveries, chats, api, crashes, requests, persisted, pipe, calc>>

\* insert_one of the sent row; DuplicateKeyError: continue
InsertSent(p) ==
    /\ w[p].pc = "insert"
    /\ LET res == InsertOne(deliveries,
                      SentRow(w[p].doc.id, Head(w[p].chat_ids), w[p].run_at, w[p].msg_ids, p))
       IN  deliveries' = res.rows
    /\ w' = [w EXCEPT ![p].pc = "find", ![p].chat_ids = Tail(@), ![p].msg_ids = <<>>]
    /\ UNCHANGED <<disc, ins, now, scheduled, chats, provider, api, crashes, requests, persisted, pipe, calc>>

\* An error handler that records the error row and gives up the item's
\* remaining destinations
InsertErrorAbortsItem(p) ==
    /\ w[p].pc = "error"
    /\ LET res == InsertOne(deliveries,
                      ErrorRow(w[p].doc.id, Head(w[p].chat_ids), w[p].run_at, w[p].err, p))
       IN  deliveries' = res.rows
    /\ w' = [w EXCEPT ![p].pc = "finish", ![p].chat_ids = <<>>, ![p].err = ""]
    /\ UNCHANGED <<disc, ins, now, scheduled, chats, provider, api, crashes, requests, persisted, pipe, calc>>

\* except Exception: insert_one of the error row; DuplicateKeyError: pass
InsertError(p) ==
    /\ w[p].pc = "error"
    /\ LET res == InsertOne(deliveries,
                      ErrorRow(w[p].doc.id, Head(w[p].chat_ids), w[p].run_at, w[p].err, p))
       IN  deliveries' = res.rows
    /\ w' = [w EXCEPT ![p].pc = "find", ![p].chat_ids = Tail(@), ![p].err = ""]
    /\ UNCHANGED <<disc, ins, now, scheduled, chats, provider, api, crashes, requests, persisted, pipe, calc>>

\* The final $set with a once branch that marks the item done but leaves it
\* enabled
FinalUpdateOnceStaysEnabled(d, t) ==
    IF d.scheduleType = "once"
    THEN [status |-> "done"]
    ELSE LET next_run == ComputeNextRunAtUtc(d, WorkerTz(d), t)
         IN  IF ~next_run.ok
             THEN [status |-> "error", enabled |-> FALSE, error |-> next_run.val]
             ELSE IF next_run.val = Null
             THEN [status |-> "ended", enabled |-> FALSE, nextRunAt |-> Null]
             ELSE [status |-> "scheduled", nextRunAt |-> next_run.val]

\* The final $set with an error branch that records the error but leaves the
\* item enabled
FinalUpdateErrorStaysEnabled(d, t) ==
    IF d.scheduleType = "once"
    THEN [status |-> "done", enabled |-> FALSE]
    ELSE LET next_run == ComputeNextRunAtUtc(d, WorkerTz(d), t)
         IN  IF ~next_run.ok
             THEN [status |-> "error", error |-> next_run.val]
             ELSE IF next_run.val = Null
             THEN [status |-> "ended", enabled |-> FALSE, nextRunAt |-> Null]
             ELSE [status |-> "scheduled", nextRunAt |-> next_run.val]

\* The final $set with a recurring branch that puts the item back to scheduled
\* and leaves its nextRunAt as it is
FinalUpdateKeepsNextRun(d, t) ==
    IF d.scheduleType = "once"
    THEN [status |-> "done", enabled |-> FALSE]
    ELSE LET next_run == ComputeNextRunAtUtc(d, WorkerTz(d), t)
         IN  IF ~next_run.ok
             THEN [status |-> "error", enabled |-> FALSE, error |-> next_run.val]
             ELSE IF next_run.val = Null
             THEN [status |-> "ended", enabled |-> FALSE, nextRunAt |-> Null]
             ELSE [status |-> "scheduled"]

\* The $set scheduler_loop writes once send_scheduled_to_targets has returned,
\* for the document d as read by the due query, at clock t
FinalUpdate(d, t) ==
    IF d.scheduleType = "once"
    THEN [status |-> "done", enabled |-> FALSE]
    ELSE LET next_run == ComputeNextRunAtUtc(d, WorkerTz(d), t)
         IN  IF ~next_run.ok
             THEN [status |-> "error", enabled |-> FALSE, error |-> next_run.val]
             ELSE IF next_run.val = Null
             THEN [status |-> "ended", enabled |-> FALSE, nextRunAt |-> Null]
             ELSE [status |-> "scheduled", nextRunAt |-> next_run.val]

\* History: no tick has stored a nextRunAt for the item yet
NoneStored == [val |-> Null, fresh |-> FALSE]

\* History after a poller's update upd of item id: a stored nextRunAt is noted
TickStored(h, id, upd) ==
    IF id \in DOMAIN h /\ "nextRunAt" \in DOMAIN upd /\ upd.nextRunAt # Null
    THEN [h EXCEPT ![id] = [val |-> upd.nextRunAt, fresh |-> TRUE]]
    ELSE h

\* History after an API update upd of item id: a rewritten nextRunAt is noted
ApiStored(h, id, upd) ==
    IF id \in DOMAIN h /\ "nextRunAt" \in DOMAIN upd
    THEN [h EXCEPT ![id].fresh = FALSE]
    ELSE h

\* scheduler_loop after the dispatch: persist the item's next state
Finish(p) ==
    /\ w[p].pc = "finish"
    /\ scheduled' = UpdateOne(scheduled, w[p].doc.id, FinalUpdate(w[p].doc, now))
    /\ persisted' = TickStored(persisted, w[p].doc.id, FinalUpdate(w[p].doc, now))
    /\ w' = [w EXCEPT ![p].pc = "loop", ![p].cur = Tail(@), ![p].doc = NoDoc,
                      ![p].run_at = Null, ![p].chat_ids = <<>>]
    /\ UNCHANGED <<disc, ins, now, deliveries, chats, provider, api, crashes, requests, pipe, calc>>

PollerStep(p) ==
    \/ Query(p)
    \/ EndTick(p)
    \/ BeginDoc(p)
    \/ Resolve(p)
    \/ TargetsDone(p)
    \/ FindOne(p)
    \/ Send(p)
    \/ InsertSent(p)
    \/ InsertError(p)
    \/ Finish(p)

\* A MongoDB call of the tick made outside the per-destination and next-run
\* try blocks raises (the server is unreachable for a moment): marking the item
\* processing, reading the registry or writing no_targets, the final update of
\* a once item. The exception leaves "for doc in cur" and is logged by the
\* "except Exception" around the whole tick; the poller goes to sleep.
StorageError(p) ==
    /\ \/ w[p].pc = "loop" /\ w[p].cur # <<>>
       \/ w[p].pc = "resolve"
       \/ w[p].pc = "finish" /\ w[p].doc.scheduleType = "once"
    /\ w' = [w EXCEPT ![p] = Idle]
    /\ UNCHANGED <<disc, ins, now, scheduled, deliveries, chats, provider, api, crashes, requests,
                   persisted, pipe, calc>>

\* The poller process dies at any point of a tick and is restarted: main()
\* starts scheduler_loop afresh, the collections are as the dead process left them
Crash(p) ==
    /\ w[p].pc # "sleep"
    /\ crashes < MaxCrashes
    /\ crashes' = crashes + 1
    /\ w' = [w EXCEPT ![p] = Idle]
    /\ UNCHANGED <<disc, ins, now, scheduled, deliveries, chats, provider, api, requests, persisted, pipe, calc>>

\* The clock advances
Tick ==
    /\ now < MaxTime
    /\ now' = now + 1
    /\ UNCHANGED <<disc, ins, scheduled, deliveries, chats, provider, w, api, crashes, requests, persisted, pipe, calc>>

----------------------------------------------------------------------------
(* The send pipelines: send_text_safe and send_images_safe, step by step.   *)
(* The image urls of an item are 1..n; the caption is text 0 and url i is   *)
(* text i (build_caption never returns an empty string). pipe.pc is the     *)
(* pipeline's position:                                                     *)
(*   text_send   send_text_safe before its first send_message               *)
(*   text_sleep  FloodWaitError caught, before asyncio.sleep                *)
(*   text_retry  before the second send_message                             *)
(*   download    in the loop over image_urls                                *)
(*   prepare     in the loop over local_paths                               *)
(*   send_file   before the grouped send                                    *)
(*   file_sleep  FloodWaitError caught by send_images_safe, before sleep    *)
(*   file_retry  before the second send_file                                *)
(*   cleanup     in "finally"                                                *)
(*   done        the pipeline has returned or raised                        *)

MaxAlbum == 10

\* image_urls[:10] with all but the first 10 kept
KeepAllUrls(n) == n

\* image_urls = image_urls[:10]: how many of n urls are kept
ImageUrls(n) == IF n <= MaxAlbum THEN n ELSE MaxAlbum

\* e.seconds of a FloodWaitError
FloodSeconds == {1, 2}

\* What the provider answers to one call
Responses(pp) ==
    {"ok", "Error"} \cup (IF pp.floods < MaxFloods THEN {"FloodWait"} ELSE {})

\* The scratch files: the download of url i, the JPEG made from it
Dl(i) == <<"download", i>>
Jpg(f) == <<"jpeg", f[2]>>

\* if os.path.exists(url): return url. The file that media reference i names
\* when the reference is the path of an existing file of the worker's host
Loc(i) == <<"local", i>>

\* Which media references of the stored item id are paths of existing files
LocalRefs(id) ==
    IF id \in DOMAIN scheduled /\ "localRefs" \in DOMAIN scheduled[id]
    THEN scheduled[id].localRefs ELSE {}

\* MIN_DELAY_SECONDS = 0.35, in pipeline clock units of 1/20 second
MinDelay == 7

\* n seconds in pipeline clock units
Seconds(n) == n * 20

\* throttle: sleep until min_delay_seconds after _last_send_time, then set
\* _last_send_time to the clock
Throttle(pp) ==
    LET t == IF pp.last # Null /\ pp.clock - pp.last < MinDelay
             THEN pp.last + MinDelay ELSE pp.clock
    IN  [pp EXCEPT !.clock = t, !.last = t]


\* What _download_one and _ensure_photo_jpeg may do for one file: succeed,
\* fail before any file is created, or fail after the file was created
FileOutcomes(pp) ==
    {"ok"} \cup (IF pp.faults < MaxFaults THEN {"none", "partial"} ELSE {})

\* The locals of a pipeline invocation as it starts; n is the number of image
\* urls of the item (0: text only)
StartPipe(n) ==
    [pc |-> IF n = 0 THEN "text_send" ELSE "download",
     kind |-> IF n = 0 THEN "text" ELSE "media",
     urls |-> ImageUrls(n),
     next |-> 1,
     local |-> <<>>,
     prepared |-> <<>>,
     todo |-> IF n = 0 THEN <<0>> ELSE <<>>,
     preview |-> FALSE,
     calls |-> <<>>,
     sleeps |-> <<>>,
     files |-> {},
     dir |-> (n # 0),
     faults |-> 0,
     floods |-> 0,
     secs |-> 0,
     result |-> "",
     outside |-> {},
     kept |-> {},
     clock |-> 0,
     last |-> Null]

\* The pipeline locals pp entered after the invocation prev: the process clock
\* and the global _last_send_time go on, refs are the item's references that
\* are existing local files
Entered(pp, prev, refs) ==
    [pp EXCEPT !.outside = refs \cap (1..pp.urls),
               !.kept = {Loc(i) : i \in refs},
               !.clock = IF prev.pc = "idle" THEN 0 ELSE prev.clock,
               !.last = IF prev.pc = "idle" THEN Null ELSE prev.last]

\* The pipeline leaves with an exception: send_text_safe called on its own
\* raises to the caller, inside send_images_safe "finally" runs first
Raised(pp) ==
    [pp EXCEPT !.result = "raise", !.pc = IF pp.kind = "text" THEN "done" ELSE "cleanup"]

\* send_text_safe has returned the id of its message: the caller goes on with
\* its next text, or returns
TextSent(pp) ==
    IF Len(pp.todo) > 1 THEN [pp EXCEPT !.todo = Tail(@), !.pc = "text_send"]
    ELSE [pp EXCEPT !.todo = <<>>, !.result = "ok",
                    !.pc = IF pp.kind = "text" THEN "done" ELSE "cleanup"]

MessageCall(pp, resp) ==
    [api |-> "send_message", media |-> 0, text |-> Head(pp.todo),
     preview |-> pp.preview, resp |-> resp, at |-> pp.clock]

FileCall(pp, files, resp) ==
    [api |-> "send_file", media |-> Len(files), text |-> 0, preview |-> FALSE, resp |-> resp,
     at |-> pp.clock]

\* for cid in chat_ids: the pipeline is entered (send_images_safe if the item
\* has image urls, else send_text_safe with link_preview = not disable_preview)
PipeStart(p) ==
    /\ w[p].pc = "send"
    /\ Len(provider) < MaxSends
    /\ pipe' = Entered(StartPipe(w[p].doc.imageUrls), pipe, LocalRefs(w[p].doc.id))
    /\ w' = [w EXCEPT ![p].pc = "pipeline"]
    /\ UNCHANGED <<disc, ins, now, scheduled, deliveries, chats, provider, api, crashes, requests,
                   persisted, calc>>

\* send_text_safe: throttle, then client.send_message
TextSend ==
    /\ pipe.pc = "text_send"
    /\ \E resp \in Responses(pipe), s \in FloodSeconds :
         LET th == Throttle(pipe)
             logged == [th EXCEPT !.calls = Append(@, MessageCall(th, resp))]
         IN  pipe' = IF resp = "ok" THEN TextSent(logged)
                     ELSE IF resp = "FloodWait"
                     THEN [logged EXCEPT !.pc = "text_sleep", !.secs = s, !.floods = @ + 1]
                     ELSE Raised(logged)
    /\ UNCHANGED <<disc, ins, now, scheduled, deliveries, chats, provider, w, api, crashes, requests,
                   persisted, calc>>

\* except FloodWaitError: await asyncio.sleep(e.seconds + 1)
TextSleep ==
    /\ pipe.pc = "text_sleep"
    /\ pipe' = [pipe EXCEPT !.sleeps = Append(@, pipe.secs + 1), !.pc = "text_retry",
                            !.clock = @ + Seconds(pipe.secs + 1)]
    /\ UNCHANGED <<disc, ins, now, scheduled, deliveries, chats, provider, w, api, crashes, requests,
                   persisted, calc>>

\* A second send_message that, rate-limited again, sleeps and tries once more
TextRetryAgain ==
    /\ pipe.pc = "text_retry"
    /\ \E resp \in Responses(pipe), s \in FloodSeconds :
         LET logged == [pipe EXCEPT !.calls = Append(@, MessageCall(pipe, resp))]
         IN  pipe' = IF resp = "ok" THEN TextSent(logged)
                     ELSE IF resp = "FloodWait"
                     THEN [logged EXCEPT !.pc = "text_sleep", !.secs = s, !.floods = @ + 1]
                     ELSE Raised(logged)
    /\ UNCHANGED <<disc, ins, now, scheduled, deliveries, chats, provider, w, api, crashes, requests,
                   persisted, calc>>

\* The second client.send_message, outside any try of send_text_safe: what it
\* raises leaves send_text_safe; a FloodWaitError is caught by send_images_safe
\* when that is the caller
TextRetry ==
    /\ pipe.pc = "text_retry"
    /\ \E resp \in Responses(pipe), s \in FloodSeconds :
         LET logged == [pipe EXCEPT !.calls = Append(@, MessageCall(pipe, resp))]
         IN  pipe' = IF resp = "ok" THEN TextSent(logged)
                     ELSE IF resp = "FloodWait" /\ pipe.kind = "media"
                     THEN [logged EXCEPT !.pc = "file_sleep", !.secs = s, !.floods = @ + 1]
                     ELSE Raised(logged)
    /\ UNCHANGED <<disc, ins, now, scheduled, deliveries, chats, provider, w, api, crashes, requests,
                   persisted, calc>>

\* _download_one of the next url: a reference that is an existing local path
\* is returned as it is, anything else is fetched into the scratch directory
DownloadOutcomes(pp) ==
    IF pp.next \in pp.outside THEN {"local"} ELSE FileOutcomes(pp)

\* for u in image_urls: p = await _download_one(u, tmpdir); after the last
\* one: no local path: the caption and the urls go out as text messages with
\* link preview
Download ==
    /\ pipe.pc = "download"
    /\ \E outcome \in DownloadOutcomes(pipe) :
         LET f == IF outcome = "local" THEN Loc(pipe.next) ELSE Dl(pipe.next)
             got == [pipe EXCEPT
                        !.next = @ + 1,
                        !.local = IF outcome \in {"ok", "local"} THEN Append(@, f) ELSE @,
                        !.files = IF outcome \in {"none", "local"} THEN @ ELSE @ \cup {f},
                        !.faults = IF outcome \in {"ok", "local"} THEN @ ELSE @ + 1]
         IN  pipe' = IF pipe.next < pipe.urls THEN got
                     ELSE IF got.local = <<>>
                     THEN [got EXCEPT !.pc = "text_send", !.preview = TRUE,
                                      !.todo = <<0>> \o [i \in 1..pipe.urls |-> i]]
                     ELSE [got EXCEPT !.pc = "prepare", !.next = 1]
    /\ UNCHANGED <<disc, ins, now, scheduled, deliveries, chats, provider, w, api, crashes, requests,
                   persisted, calc>>

\* for p in local_paths: prepared.append(_ensure_photo_jpeg(p, tmpdir))
Prepare ==
    /\ pipe.pc = "prepare"
    /\ \E outcome \in FileOutcomes(pipe) :
         LET src == pipe.local[pipe.next]
             got == [pipe EXCEPT
                        !.next = @ + 1,
                        !.prepared = Append(@, IF outcome = "ok" THEN Jpg(src) ELSE src),
                        !.files = IF outcome = "none" THEN @ ELSE @ \cup {Jpg(src)},
                        !.faults = IF outcome = "ok" THEN @ ELSE @ + 1]
         IN  pipe' = IF pipe.next < Len(pipe.local) THEN got
                     ELSE [got EXCEPT !.pc = "send_file"]
    /\ UNCHANGED <<disc, ins, now, scheduled, deliveries, chats, provider, w, api, crashes, requests,
                   persisted, calc>>

\* throttle, then client.send_file(chat_id, prepared, ...)
SendFile ==
    /\ pipe.pc = "send_file"
    /\ \E resp \in Responses(pipe), s \in FloodSeconds :
         LET th == Throttle(pipe)
             logged == [th EXCEPT !.calls = Append(@, FileCall(th, th.prepared, resp))]
         IN  pipe' = IF resp = "ok" THEN [logged EXCEPT !.result = "ok", !.pc = "cleanup"]
                     ELSE IF resp = "FloodWait"
                     THEN [logged EXCEPT !.pc = "file_sleep", !.secs = s, !.floods = @ + 1]
                     ELSE Raised(logged)
    /\ UNCHANGED <<disc, ins, now, scheduled, deliveries, chats, provider, w, api, crashes, requests,
                   persisted, calc>>

\* send_images_safe, except FloodWaitError: await asyncio.sleep(e.seconds + 1)
FileSleep ==
    /\ pipe.pc = "file_sleep"
    /\ pipe' = [pipe EXCEPT !.sleeps = Append(@, pipe.secs + 1), !.pc = "file_retry",
                            !.clock = @ + Seconds(pipe.secs + 1)]
    /\ UNCHANGED <<disc, ins, now, scheduled, deliveries, chats, provider, w, api, crashes, requests,
                   persisted, calc>>

\* client.send_file(chat_id, prepared or local_paths, ...) in the handler
FileRetry ==
    /\ pipe.pc = "file_retry"
    /\ \E resp \in Responses(pipe) :
         LET files == IF pipe.prepared # <<>> THEN pipe.prepared ELSE pipe.local
             logged == [pipe EXCEPT !.calls = Append(@, FileCall(pipe, files, resp))]
         IN  pipe' = IF resp = "ok" THEN [logged EXCEPT !.result = "ok", !.pc = "cleanup"]
                     ELSE Raised(logged)
    /\ UNCHANGED <<disc, ins, now, scheduled, deliveries, chats, provider, w, api, crashes, requests,
                   persisted, calc>>

\* finally: os.remove of every path in local_paths and prepared, then
\* os.rmdir(tmpdir), which fails on a directory that is not empty
Cleanup ==
    /\ pipe.pc = "cleanup"
    /\ LET removed == Range(pipe.local) \cup Range(pipe.prepared)
           left == pipe.files \ removed
       IN  pipe' = [pipe EXCEPT !.files = left, !.dir = (left # {}), !.pc = "done",
                                !.kept = @ \ removed]
    /\ UNCHANGED <<disc, ins, now, scheduled, deliveries, chats, provider, w, api, crashes, requests,
                   persisted, calc>>

\* The pipeline returns its message ids to send_scheduled_to_targets, or raises
PipeEnd(p) ==
    /\ w[p].pc = "pipeline"
    /\ pipe.pc = "done"
    /\ provider' = Append(provider,
           [scheduledId |-> w[p].doc.id, chatId |-> Head(w[p].chat_ids),
            runAt |-> w[p].run_at, by |-> p, ok |-> (pipe.result = "ok")])
    /\ IF pipe.result = "ok"
       THEN w' = [w EXCEPT ![p].pc = "insert", ![p].msg_ids = <<Len(provider')>>]
       ELSE w' = [w EXCEPT ![p].pc = "error", ![p].err = "DeliveryError"]
    /\ pipe' = [pipe EXCEPT !.pc = "left"]
    /\ UNCHANGED <<disc, ins, now, scheduled, deliveries, chats, api, crashes, requests, persisted, calc>>

\* A tick of the poller with the send pipeline taken step by step
PollerStepPipeline(p) ==
    \/ Query(p)
    \/ EndTick(p)
    \/ BeginDoc(p)
    \/ Resolve(p)
    \/ TargetsDone(p)
    \/ FindOne(p)
    \/ PipeStart(p)
    \/ PipeEnd(p)
    \/ InsertSent(p)
    \/ InsertError(p)
    \/ Finish(p)

----------------------------------------------------------------------------
(* The admin API: backend/app.py *)

\* ScheduledMessageBase._validate_schedule
ValidPayload(payload) ==
    /\ payload.scheduleType = "once" => payload.runAt # Null
    /\ payload.scheduleType # "once" => payload.cron \notin {Null, BadCron}
    /\ payload.targetsMode = "explicit" => payload.targetChatIds # <<>>

\* The request bodies of POST /api/messages the model draws from
CreatePayloads ==
    { [scheduleType |-> "once", runAt |-> 1, cron |-> Null, endAt |-> Null,
       tz |-> "UTC", enabled |-> TRUE,
       targetsMode |-> "explicit", targetChatIds |-> <<-100, -200>>, imageUrls |-> 0],
      [scheduleType |-> "once", runAt |-> 0, cron |-> Null, endAt |-> Null,
       tz |-> "America/Los_Angeles", enabled |-> TRUE,
       targetsMode |-> "explicit", targetChatIds |-> <<55>>, imageUrls |-> 0],
      [scheduleType |-> "cron", runAt |-> Null, cron |-> 2, endAt |-> 2,
       tz |-> "America/Los_Angeles", enabled |-> TRUE,
       targetsMode |-> "all", targetChatIds |-> <<>>, imageUrls |-> 0],
      [scheduleType |-> "cron", runAt |-> Null, cron |-> 1, endAt |-> Null,
       tz |-> "UTC", enabled |-> TRUE,
       targetsMode |-> "explicit", targetChatIds |-> <<-100, 55>>, imageUrls |-> 0] }

\* create_message: the document insert_one stores, or the error raised, at clock t
CreateDoc(payload, id, t) ==
    LET tz_name == payload.tz
        run_at_utc == IF payload.scheduleType = "once"
                      THEN LocalInputToUtc(payload.runAt, tz_name) ELSE Null
        end_at_utc == LocalInputToUtc(payload.endAt, tz_name)
        next_run == ComputeNextRunAt(payload.scheduleType, run_at_utc, payload.cron,
                                     end_at_utc, tz_name, t)
    IN  IF ~next_run.ok THEN next_run
        ELSE Ok([id |-> id,
                 imageUrls |-> payload.imageUrls,
                 targetsMode |-> payload.targetsMode,
                 targetChatIds |-> IF payload.targetsMode = "explicit"
                                   THEN payload.targetChatIds ELSE <<>>,
                 scheduleType |-> payload.scheduleType,
                 runAt |-> run_at_utc,
                 cron |-> payload.cron,
                 endAt |-> end_at_utc,
                 tz |-> payload.tz,
                 enabled |-> (payload.enabled /\ next_run.val # Null),
                 status |-> IF next_run.val # Null THEN "scheduled" ELSE "ended",
                 nextRunAt |-> next_run.val,
                 lastRunAt |-> Null])

\* ObjectId of a new document
NewId(coll) == Cardinality(DOMAIN coll) + 1

\* POST /api/messages
Create ==
    /\ requests < MaxRequests
    /\ requests' = requests + 1
    /\ \E payload \in CreatePayloads :
         /\ ValidPayload(payload)
         /\ LET res == CreateDoc(payload, NewId(scheduled), now)
            IN  /\ res.ok
                /\ scheduled' = (NewId(scheduled) :> res.val) @@ scheduled
                /\ persisted' = (NewId(scheduled) :> NoneStored) @@ persisted
    /\ UNCHANGED <<disc, ins, now, deliveries, chats, provider, w, api, crashes, pipe, calc>>

\* The request bodies of PATCH /api/messages/{id} the model draws from
\* (model_dump(exclude_unset=True): only the fields the request sets)
PatchPayloads ==
    { [enabled |-> TRUE], [enabled |-> FALSE], [endAt |-> 1] }

ScheduleFields == {"scheduleType", "runAt", "cron", "endAt", "tz", "enabled"}

\* update_message: the $set it writes for the document it read, or the error
\* raised, at clock t
PatchUpdate(existing, payload, t) ==
    LET tz_name == IF "tz" \in DOMAIN payload THEN payload.tz ELSE existing.tz
        u1 == IF "runAt" \in DOMAIN payload /\ payload.runAt # Null
              THEN [runAt |-> LocalInputToUtc(payload.runAt, tz_name)] @@ payload
              ELSE payload
        update == IF "endAt" \in DOMAIN payload /\ payload.endAt # Null
                  THEN [endAt |-> LocalInputToUtc(payload.endAt, tz_name)] @@ u1
                  ELSE u1
        merged == update @@ existing
        next_run == ComputeNextRunAt(merged.scheduleType, merged.runAt, merged.cron,
                                     merged.endAt, tz_name, t)
    IN  IF DOMAIN payload \cap ScheduleFields = {} THEN Ok(update)
        ELSE IF ~next_run.ok THEN next_run
        ELSE IF next_run.val = Null
        THEN Ok([enabled |-> FALSE, status |-> "ended", nextRunAt |-> Null] @@ update)
        ELSE Ok([nextRunAt |-> next_run.val] @@ update)

ApiIdle == [pc |-> "idle"]

\* The fields of the document read by find_one that update_message uses
\* (merged.get(...))
PatchReads == {"scheduleType", "runAt", "cron", "endAt", "tz"}

\* PATCH /api/messages/{id}, first half: existing = find_one({"_id": oid})
PatchRead ==
    /\ api.pc = "idle"
    /\ requests < MaxRequests
    /\ requests' = requests + 1
    /\ \E id \in DOMAIN scheduled, payload \in PatchPayloads :
         api' = [pc |-> "patch", id |-> id, existing |-> [f \in PatchReads |-> scheduled[id][f]],
                 payload |-> payload]
    /\ UNCHANGED <<disc, ins, now, scheduled, deliveries, chats, provider, w, crashes, persisted, pipe, calc>>

\* PATCH /api/messages/{id}, second half: update_one({"_id": oid}, {"$set": update})
PatchWrite ==
    /\ api.pc = "patch"
    /\ LET res == PatchUpdate(api.existing, api.payload, now)
       IN  /\ scheduled' = IF res.ok THEN UpdateOne(scheduled, api.id, res.val) ELSE scheduled
           /\ persisted' = IF res.ok THEN ApiStored(persisted, api.id, res.val) ELSE persisted
    /\ api' = ApiIdle
    /\ UNCHANGED <<disc, ins, now, deliveries, chats, provider, w, crashes, requests, pipe, calc>>

\* A run-now that schedules the item one unit before the request's clock
RunNowUpdateEarlier(t) == [nextRunAt |-> t - 1, status |-> "scheduled", enabled |-> TRUE]

\* The $set of run_message_now at clock t
RunNowUpdate(t) == [nextRunAt |-> t, status |-> "scheduled", enabled |-> TRUE]

\* POST /api/messages/{id}/run
RunNow ==
    /\ requests < MaxRequests
    /\ requests' = requests + 1
    /\ \E id \in DOMAIN scheduled :
         /\ scheduled' = UpdateOne(scheduled, id, RunNowUpdate(now))
         /\ persisted' = ApiStored(persisted, id, RunNowUpdate(now))
    /\ UNCHANGED <<disc, ins, now, deliveries, chats, provider, w, api, crashes, pipe, calc>>

----------------------------------------------------------------------------
(* Chat discovery: sync_dialogs and on_any_group_message of worker.py *)

\* The chats of the account by canonical id: three group-class chats (negative
\* ids) and one user chat
DialogChats == {-100, -200, -400, 55}

\* Titles a chat may carry when it is seen; a chat may be renamed between two
\* discovery events
Titles == {"News", " news  ", "Sales", ""}

\* normalize_title of None or of a blank title
NoTitle == "None"

\* normalize_title: strip, collapse white space, lower case
NormalizeTitle(t) ==
    CASE t = "News" -> "news"
      [] t = " news  " -> "news"
      [] t = "Sales" -> "sales"
      [] OTHER -> NoTitle

\* The registration of chat c seen with title t at clock at in the collection
\* coll, shared by sync_dialogs and on_any_group_message: an entry with the
\* same normalized title is taken over (its chatId is set to c), otherwise an
\* upsert on chatId. Both unique indexes (chatId; normalizedTitle, which also
\* indexes a stored null) reject a second entry with the same value
RegisterChat(coll, c, t, at) ==
    LET norm == NormalizeTitle(t)
        existing == {r \in coll : r.normalizedTitle = norm}
        mine == {r \in coll : r.chatId = c}
        doc == [chatId |-> c, title |-> t, normalizedTitle |-> norm, isActive |-> TRUE,
                firstSeenAt |-> at, lastSeenAt |-> at]
    IN  IF norm # NoTitle /\ existing # {}
        THEN LET r == CHOOSE r \in existing : TRUE
             IN  IF \E o \in coll \ {r} : o.chatId = c
                 THEN Raise("DuplicateKeyError")
                 ELSE Ok((coll \ {r}) \cup
                         {[r EXCEPT !.lastSeenAt = at, !.isActive = TRUE, !.chatId = c]})
        ELSE IF mine # {}
        THEN Ok((coll \ mine) \cup
                {[r EXCEPT !.lastSeenAt = at, !.isActive = TRUE] : r \in mine})
        ELSE IF existing # {}
        THEN Raise("DuplicateKeyError")
        ELSE Ok(coll \cup {doc})

\* One discovery event for chat c with title t: chats that are not group-class
\* (chat_id >= 0) are skipped
Discover(c, t) ==
    IF c >= 0
    THEN UNCHANGED <<chats, disc>>
    ELSE LET res == RegisterChat(chats, c, t, now)
         IN  /\ chats' = IF res.ok THEN res.val ELSE chats
             /\ disc' = [seen |-> disc.seen \cup {c}, raised |-> ~res.ok]

\* sync_dialogs: the body of "async for dlg in client.iter_dialogs()" for one
\* dialog
SyncDialog ==
    /\ \E c \in DialogChats, t \in Titles : Discover(c, t)
    /\ UNCHANGED <<ins, now, scheduled, deliveries, provider, w, api, crashes, requests,
                   persisted, pipe, calc>>

\* on_any_group_message: an incoming message of a group or channel
OnGroupMessage ==
    /\ \E c \in DialogChats, t \in Titles : Discover(c, t)
    /\ UNCHANGED <<ins, now, scheduled, deliveries, provider, w, api, crashes, requests,
                   persisted, pipe, calc>>

----------------------------------------------------------------------------
(* The operator chat script: attach-mode insert sessions of script_mysql.py, *)
(* for one (chat, user) key. ins.pending is PENDING_INSERT[key] (empty or    *)
(* one session), ins.tasks the timeout_finalize tasks in creation order      *)
(* (task i belongs to session i), ins.docs the scheduled documents created.  *)

\* timedelta(seconds=60), asyncio.sleep(60)
InsertWindow == 60

\* finalize_insert_schedule called at clock t by the command or by task i:
\* the session is popped; a when_str that parses gives one scheduled document
FinalizeInsertSchedule(st, by, i) ==
    IF st.pending = <<>> THEN st
    ELSE LET sess == st.pending[1]
         IN  [st EXCEPT
                !.pending = <<>>,
                !.docs = IF sess.valid
                         THEN Append(@, [session |-> sess.n, opened |-> sess.at, by |-> by,
                                         task |-> i, at |-> st.clock])
                         ELSE @]

\* cmd_insert in attach mode: a pending session is discarded (its timeout task
\* is left running), a new session and its timeout task are created
CmdInsert ==
    /\ ins.opened < MaxInserts
    /\ \E valid \in BOOLEAN :
         ins' = [ins EXCEPT
                    !.pending = <<[n |-> ins.opened + 1, at |-> ins.clock, valid |-> valid]>>,
                    !.tasks = Append(@, [pc |-> "sleep", wake |-> ins.clock + InsertWindow]),
                    !.opened = @ + 1]
    /\ UNCHANGED <<disc, now, scheduled, deliveries, chats, provider, w, api, crashes,
                   requests, persisted, pipe, calc>>

\* timeout_finalize after asyncio.sleep(60): if key in PENDING_INSERT it
\* replies, else it ends
TimeoutWake(i) ==
    /\ ins.tasks[i].pc = "sleep"
    /\ ins.clock >= ins.tasks[i].wake
    /\ ins' = [ins EXCEPT !.tasks[i].pc = IF ins.pending # <<>> THEN "reply" ELSE "done"]
    /\ UNCHANGED <<disc, now, scheduled, deliveries, chats, provider, w, api, crashes,
                   requests, persisted, pipe, calc>>

\* timeout_finalize after its reply: finalize_insert_schedule(client, key, ...)
TimeoutFinalize(i) ==
    /\ ins.tasks[i].pc = "reply"
    /\ ins' = [FinalizeInsertSchedule(ins, "timeout", i) EXCEPT !.tasks[i].pc = "done"]
    /\ UNCHANGED <<disc, now, scheduled, deliveries, chats, provider, w, api, crashes,
                   requests, persisted, pipe, calc>>

\* cmd_done with a pending insert: the task of the pending session is
\* cancelled if it has not ended, then finalize_insert_schedule
CmdDone ==
    /\ ins.pending # <<>>
    /\ LET i == ins.pending[1].n
           cancelled == IF ins.tasks[i].pc = "done" THEN ins
                        ELSE [ins EXCEPT !.tasks[i].pc = "cancelled"]
       IN  ins' = FinalizeInsertSchedule(cancelled, "done", 0)
    /\ UNCHANGED <<disc, now, scheduled, deliveries, chats, provider, w, api, crashes,
                   requests, persisted, pipe, calc>>

\* Twenty seconds pass on the script's clock
ScriptTick ==
    /\ ins.clock < MaxClock
    /\ ins' = [ins EXCEPT !.clock = @ + 20]
    /\ UNCHANGED <<disc, now, scheduled, deliveries, chats, provider, w, api, crashes,
                   requests, persisted, pipe, calc>>

----------------------------------------------------------------------------
(* Specifications *)

\* The destination registry as dialog discovery left it
Registry ==
    { [chatId |-> -100, isActive |-> TRUE],
      [chatId |-> -200, isActive |-> TRUE],
      [chatId |-> -300, isActive |-> FALSE],
      [chatId |-> 55, isActive |-> TRUE] }

\* After construction: empty collections, every poller before its first tick
Init ==
    /\ now = 0
    /\ scheduled = <<>>
    /\ deliveries = <<>>
    /\ chats = Registry
    /\ provider = <<>>
    /\ w = [p \in Pollers |-> Idle]
    /\ api = ApiIdle
    /\ crashes = 0
    /\ requests = 0
    /\ persisted = <<>>
    /\ pipe = NoPipe
    /\ calc = NoCalc
    /\ disc = NoDisc
    /\ ins = NoInsert

\* One poller, the admin API and the clock
Next ==
    \/ PollerStep(MainPoller)
    \/ Create
    \/ PatchRead
    \/ PatchWrite
    \/ RunNow
    \/ Tick

Spec == Init /\ [][Next]_vars

\* The state after one accepted POST /api/messages at clock 0
InitOne ==
    /\ now = 0
    /\ \E payload \in CreatePayloads :
         /\ ValidPayload(payload)
         /\ CreateDoc(payload, 1, 0).ok
         /\ scheduled = (1 :> CreateDoc(payload, 1, 0).val)
    /\ deliveries = <<>>
    /\ chats = Registry
    /\ provider = <<>>
    /\ w = [p \in Pollers |-> Idle]
    /\ api = ApiIdle
    /\ crashes = 0
    /\ requests = 1
    /\ persisted = (1 :> NoneStored)
    /\ pipe = NoPipe
    /\ calc = NoCalc
    /\ disc = NoDisc
    /\ ins = NoInsert

\* Two poller processes on the same collections (a second worker was started,
\* or a restarted one overlaps the ticks of the old one)
NextRace ==
    \/ \E p \in Pollers : PollerStep(p)
    \/ Tick

SpecRace == InitOne /\ [][NextRace]_vars

\* One poller process that may die at any point of a tick and is restarted
NextCrash ==
    \/ PollerStep(MainPoller)
    \/ Crash(MainPoller)
    \/ Tick

SpecCrash == InitOne /\ [][NextCrash]_vars

\* Two poller processes, the first of which may die at any point of a tick
\* and be restarted while the second runs
NextRaceCrash ==
    \/ \E p \in Pollers : PollerStep(p)
    \/ Crash(MainPoller)
    \/ Tick

SpecRaceCrash == InitOne /\ [][NextRaceCrash]_vars

\* The chat ids target lists and registries are drawn from: two groups and a
\* user chat (positive id)
ChatIdPool == {-200, -100, 55}

\* The explicit target lists a request may carry, in any order, with repeats
TargetLists == UNION {[1..n -> ChatIdPool] : n \in 1..MaxTargets}

\* The registries dialog discovery may have left: one row per chat id
Registries ==
    {R \in SUBSET [chatId : ChatIdPool, isActive : BOOLEAN] :
        \A a, b \in R : a.chatId = b.chatId => a = b}

\* Requests for a once item at instant 1, over every target list and mode
ResolvePayloads ==
    {[scheduleType |-> "once", runAt |-> 1, cron |-> Null, endAt |-> Null,
      tz |-> "UTC", enabled |-> TRUE,
      targetsMode |-> mode, targetChatIds |-> ids, imageUrls |-> 0] :
        mode \in {"all", "explicit"}, ids \in TargetLists \cup {<<>>}}

\* One item accepted by POST /api/messages at clock 0, any registry, and the
\* clock at the item's runAt
InitResolve ==
    /\ now = 1
    /\ \E payload \in ResolvePayloads :
         /\ ValidPayload(payload)
         /\ CreateDoc(payload, 1, 0).ok
         /\ scheduled = (1 :> CreateDoc(payload, 1, 0).val)
    /\ deliveries = <<>>
    /\ chats \in Registries
    /\ provider = <<>>
    /\ w = [p \in Pollers |-> Idle]
    /\ api = ApiIdle
    /\ crashes = 0
    /\ requests = 1
    /\ persisted = (1 :> NoneStored)
    /\ pipe = NoPipe
    /\ calc = NoCalc
    /\ disc = NoDisc
    /\ ins = NoInsert

\* One poller dispatching the item
NextResolve == PollerStep(MainPoller)

SpecResolve == InitResolve /\ [][NextResolve]_vars

\* One poller whose storage calls may fail, items created through the API
NextFault ==
    \/ PollerStep(MainPoller)
    \/ StorageError(MainPoller)
    \/ Create
    \/ Tick

SpecFault == Init /\ [][NextFault]_vars

\* Recurring documents not written by this API (older tooling, manual edits):
\* the cron expression is missing or is not one croniter accepts, the status
\* may be absent. The worker provides for both (status None in the due query,
\* the raise on a missing cron).
LegacyDocs ==
    {[CreateDoc(payload, 1, 0).val EXCEPT !.cron = c, !.status = st] :
        payload \in {q \in CreatePayloads : q.scheduleType = "cron"},
        c \in {Null, BadCron},
        st \in {"scheduled", "null"}}

\* The collection holds one such document
InitLegacy ==
    /\ now = 0
    /\ \E d \in LegacyDocs : scheduled = (1 :> d)
    /\ deliveries = <<>>
    /\ chats = Registry
    /\ provider = <<>>
    /\ w = [p \in Pollers |-> Idle]
    /\ api = ApiIdle
    /\ crashes = 0
    /\ requests = 0
    /\ persisted = (1 :> NoneStored)
    /\ pipe = NoPipe
    /\ calc = NoCalc
    /\ disc = NoDisc
    /\ ins = NoInsert

\* One poller and the clock, no admin request
NextLegacy ==
    \/ PollerStep(MainPoller)
    \/ Tick

SpecLegacy == InitLegacy /\ [][NextLegacy]_vars

\* The numbers of image urls of the items the pipeline is run for
UrlCounts == {0, 1, 2, MaxUrls}

\* Requests for a once item at instant 1 for one group, text only or with
\* image urls
PipelinePayloads ==
    {[scheduleType |-> "once", runAt |-> 1, cron |-> Null, endAt |-> Null,
      tz |-> "UTC", enabled |-> TRUE,
      targetsMode |-> "explicit", targetChatIds |-> <<-100>>, imageUrls |-> n] :
        n \in UrlCounts}

\* One item accepted by POST /api/messages at clock 0, the clock at its runAt
InitPipeline ==
    /\ now = 1
    /\ \E payload \in PipelinePayloads :
         /\ ValidPayload(payload)
         /\ CreateDoc(payload, 1, 0).ok
         /\ scheduled = (1 :> CreateDoc(payload, 1, 0).val)
    /\ deliveries = <<>>
    /\ chats = Registry
    /\ provider = <<>>
    /\ w = [p \in Pollers |-> Idle]
    /\ api = ApiIdle
    /\ crashes = 0
    /\ requests = 1
    /\ persisted = (1 :> NoneStored)
    /\ pipe = NoPipe
    /\ calc = NoCalc
    /\ disc = NoDisc
    /\ ins = NoInsert

\* One poller dispatching the item through the pipeline
NextPipeline ==
    \/ PollerStepPipeline(MainPoller)
    \/ TextSend
    \/ TextSleep
    \/ TextRetry
    \/ Download
    \/ Prepare
    \/ SendFile
    \/ FileSleep
    \/ FileRetry
    \/ Cleanup

SpecPipeline == InitPipeline /\ [][NextPipeline]_vars

\* An item of the collection whose image references are one or two, any of
\* them the path of an existing file of the worker's host
LocalPayloads ==
    {[scheduleType |-> "once", runAt |-> 1, cron |-> Null, endAt |-> Null,
      tz |-> "UTC", enabled |-> TRUE,
      targetsMode |-> "explicit", targetChatIds |-> <<-100>>, imageUrls |-> n] :
        n \in {1, 2}}

InitLocal ==
    /\ now = 1
    /\ \E payload \in LocalPayloads, refs \in SUBSET {1, 2} :
         /\ refs \subseteq 1..payload.imageUrls
         /\ scheduled = (1 :> (CreateDoc(payload, 1, 0).val @@ [localRefs |-> refs]))
    /\ deliveries = <<>>
    /\ chats = Registry
    /\ provider = <<>>
    /\ w = [p \in Pollers |-> Idle]
    /\ api = ApiIdle
    /\ crashes = 0
    /\ requests = 1
    /\ persisted = (1 :> NoneStored)
    /\ pipe = NoPipe
    /\ calc = NoCalc
    /\ disc = NoDisc
    /\ ins = NoInsert

SpecLocal == InitLocal /\ [][NextPipeline]_vars

\* The worker after get_db on an empty database: the registry is empty, chats
\* are discovered by the dialog sync and by incoming group messages
InitRegistry ==
    /\ now = 0
    /\ scheduled = <<>>
    /\ deliveries = <<>>
    /\ chats = {}
    /\ provider = <<>>
    /\ w = [p \in Pollers |-> Idle]
    /\ api = ApiIdle
    /\ crashes = 0
    /\ requests = 0
    /\ persisted = <<>>
    /\ pipe = NoPipe
    /\ calc = NoCalc
    /\ disc = NoDisc
    /\ ins = NoInsert

NextRegistry ==
    \/ SyncDialog
    \/ OnGroupMessage
    \/ Tick

SpecRegistry == InitRegistry /\ [][NextRegistry]_vars

\* The operator chat script: /insert in attach mode, /done, the timeout tasks
\* and the clock
NextInsert ==
    \/ CmdInsert
    \/ CmdDone
    \/ \E i \in 1..MaxInserts + 1 : i <= Len(ins.tasks) /\ TimeoutWake(i)
    \/ \E i \in 1..MaxInserts + 1 : i <= Len(ins.tasks) /\ TimeoutFinalize(i)
    \/ ScriptTick

SpecInsert == InitRegistry /\ [][NextInsert]_vars

\* One poller and the clock on one item, no admin request, no failure
NextTicks ==
    \/ PollerStep(MainPoller)
    \/ Tick

SpecTicks == InitOne /\ [][NextTicks]_vars

\* One poller, the clock and run-now requests on one item
NextRunNow ==
    \/ PollerStep(MainPoller)
    \/ RunNow
    \/ Tick

\* scheduler_loop is "while True" around the tick and asyncio.sleep: the
\* poller always takes its next step. Nothing is assumed of the admin or the
\* clock.
SpecRunNow == InitOne /\ [][NextRunNow]_vars /\ WF_vars(PollerStep(MainPoller))

\* A datetime as the driver or the API hands it over: a wall clock reading and
\* the offset of its tzinfo (how far it lags UTC), Null for a naive datetime
Datetimes ==
    {[clock |-> c, behind |-> b] : c \in 0..MaxTime, b \in {Null, 0, 1}}

\* None where a datetime is expected
NoDatetime == [clock |-> Null, behind |-> Null]

\* to_utc / replace(tzinfo=utc).astimezone(utc): a naive datetime is taken as
\* UTC, an aware one is converted
ToUtc(dt) ==
    IF dt = NoDatetime THEN Null
    ELSE IF dt.behind = Null THEN dt.clock
    ELSE dt.clock + dt.behind

\* No result yet
NotRun == [ok |-> FALSE, val |-> "not run"]

\* The once inputs the two calculators are run on: runAt, endAt and the
\* nextRunAt of the document (which only the worker's calculator reads), each
\* present or missing
CalcInputs ==
    {[pc |-> "input", run_at |-> r, end_at |-> e, next_run_at |-> n, tz |-> z,
      backend |-> NotRun, worker |-> NotRun] :
        r \in Datetimes \cup {NoDatetime}, e \in Datetimes \cup {NoDatetime},
        n \in {NoDatetime} \cup {[clock |-> c, behind |-> Null] : c \in 0..MaxTime},
        z \in Tzs}

\* scheduling.compute_next_run_at(schedule_type="once", ...)
CalcBackend ==
    /\ calc.pc = "input"
    /\ calc.backend = NotRun
    /\ calc' = [calc EXCEPT !.backend =
                   ComputeNextRunAt("once", ToUtc(calc.run_at), Null,
                                    ToUtc(calc.end_at), calc.tz, now)]
    /\ UNCHANGED <<disc, ins, now, scheduled, deliveries, chats, provider, w, api, crashes,
                   requests, persisted, pipe>>

\* worker.compute_next_run_at_utc(doc, tz) for a doc of scheduleType once
CalcWorker ==
    /\ calc.pc = "input"
    /\ calc.worker = NotRun
    /\ calc' = [calc EXCEPT !.worker =
                   ComputeNextRunAtUtc([scheduleType |-> "once",
                                        runAt |-> ToUtc(calc.run_at),
                                        nextRunAt |-> ToUtc(calc.next_run_at),
                                        endAt |-> ToUtc(calc.end_at),
                                        cron |-> Null],
                                       calc.tz, now)]
    /\ UNCHANGED <<disc, ins, now, scheduled, deliveries, chats, provider, w, api, crashes,
                   requests, persisted, pipe>>

\* One once input, at any clock
InitCalc ==
    /\ now \in 0..MaxTime
    /\ scheduled = <<>>
    /\ deliveries = <<>>
    /\ chats = Registry
    /\ provider = <<>>
    /\ w = [p \in Pollers |-> Idle]
    /\ api = ApiIdle
    /\ crashes = 0
    /\ requests = 0
    /\ persisted = <<>>
    /\ pipe = NoPipe
    /\ calc \in CalcInputs
    /\ disc = NoDisc
    /\ ins = NoInsert

\* Each calculator is run once on the input
NextCalc ==
    \/ CalcBackend
    \/ CalcWorker

SpecCalc == InitCalc /\ [][NextCalc]_vars

\* The largest number of due items the poller finds after it was down
MaxBacklog == 26

\* A once item for every active group, due at local instant r
BacklogPayload(r) ==
    [scheduleType |-> "once", runAt |-> r, cron |-> Null, endAt |-> Null,
     tz |-> "UTC", enabled |-> TRUE,
     targetsMode |-> "all", targetChatIds |-> <<>>, imageUrls |-> 0]

\* The runAt of the i-th of n items created: in the order of creation, or in
\* the reverse of it
BacklogRunAts(n) ==
    {[i \in 1..n |-> i - 1], [i \in 1..n |-> n - i]}

\* n items were accepted at clock 0, with distinct instants, while no poller ran;
\* the poller starts when all are due. The registry holds the groups, or is
\* still empty.
InitBacklog ==
    /\ now = MaxBacklog
    /\ \E n \in 1..MaxBacklog : \E run_ats \in BacklogRunAts(n) :
         /\ \A i \in 1..n : ValidPayload(BacklogPayload(run_ats[i]))
         /\ scheduled = [i \in 1..n |-> CreateDoc(BacklogPayload(run_ats[i]), i, 0).val]
         /\ persisted = [i \in 1..n |-> NoneStored]
    /\ deliveries = <<>>
    /\ chats \in {Registry, {}}
    /\ provider = <<>>
    /\ w = [p \in Pollers |-> Idle]
    /\ api = ApiIdle
    /\ crashes = 0
    /\ requests = 0
    /\ pipe = NoPipe
    /\ calc = NoCalc
    /\ disc = NoDisc
    /\ ins = NoInsert

\* One poller working the backlog off
NextBacklog == PollerStep(MainPoller)

SpecBacklog == InitBacklog /\ [][NextBacklog]_vars

\* A once document whose explicit target list holds an entry that is not a
\* number, due at instant r
UnresolvableDoc(id, r) ==
    [CreateDoc([scheduleType |-> "once", runAt |-> r, cron |-> Null, endAt |-> Null,
                tz |-> "UTC", enabled |-> TRUE, targetsMode |-> "explicit",
                targetChatIds |-> <<-100>>, imageUrls |-> 0], id, 0).val
        EXCEPT !.targetChatIds = <<NonNumeric, -100>>]

\* The collection holds such a document (item 1) and one item accepted by
\* POST /api/messages at clock 0 (item 2)
InitStarve ==
    /\ now = 0
    /\ \E r \in 0..MaxTime : \E payload \in CreatePayloads :
         /\ ValidPayload(payload)
         /\ CreateDoc(payload, 2, 0).ok
         /\ scheduled = (1 :> UnresolvableDoc(1, r)) @@ (2 :> CreateDoc(payload, 2, 0).val)
    /\ deliveries = <<>>
    /\ chats = Registry
    /\ provider = <<>>
    /\ w = [p \in Pollers |-> Idle]
    /\ api = ApiIdle
    /\ crashes = 0
    /\ requests = 1
    /\ persisted = (1 :> NoneStored) @@ (2 :> NoneStored)
    /\ pipe = NoPipe
    /\ calc = NoCalc
    /\ disc = NoDisc
    /\ ins = NoInsert

\* One poller and the clock
NextStarve ==
    \/ PollerStep(MainPoller)
    \/ Tick

\* scheduler_loop is "while True" around the tick and asyncio.sleep: the
\* poller always takes its next step
SpecStarve == InitStarve /\ [][NextStarve]_vars /\ WF_vars(PollerStep(MainPoller))

----------------------------------------------------------------------------
(* Properties *)

\* The triple of the delivery poller p is working on
CurrentKey(p) == <<w[p].doc.id, Head(w[p].chat_ids), w[p].run_at>>

\* Poller p has awaited the pipeline for its current triple and has not yet
\* attempted the insert_one that records the outcome
Pending(p) == w[p].pc \in {"insert", "error"}

RowsOf(k) == {i \in 1..Len(deliveries) : Key(deliveries[i]) = k}

SendsOf(k) == {i \in 1..Len(provider) : Key(provider[i]) = k}

\* C1: for every (scheduled item, destination, occurrence) triple the send
\* pipeline is invoked at most once, also when two pollers race on the triple.
C1_SendAtMostOncePerTriple ==
    \A i, j \in 1..Len(provider) : i # j => Key(provider[i]) # Key(provider[j])

\* C2: no destination receives the content of one occurrence twice, also when
\* the poller dies between a provider send and the insert of its Delivery row
\* and is restarted.
C2_NoResendAfterCrash ==
    \A i, j \in 1..Len(provider) :
        (i # j /\ provider[i].ok /\ provider[j].ok) => Key(provider[i]) # Key(provider[j])

\* No two rows of the deliveries collection have the same triple
C3_UniqueRows ==
    \A i, j \in 1..Len(deliveries) : i # j => Key(deliveries[i]) # Key(deliveries[j])

\* A step only appends rows: the rows present stay as they are
C3_RowsKept ==
    /\ Len(deliveries') >= Len(deliveries)
    /\ \A i \in 1..Len(deliveries) : deliveries'[i] = deliveries[i]

\* C3: the deliveries collection never holds two rows of one (scheduledId,
\* chatId, runAt) triple, and a row, once inserted, is never changed or removed,
\* whatever ticks, restarts and concurrent pollers do.
C3_OneRowPerTripleNeverModified == [](C3_UniqueRows) /\ [][C3_RowsKept]_vars

\* The sends for triple k whose poller has gone on to attempt its insert_one
Attempted(k) ==
    {i \in SendsOf(k) : ~(Pending(provider[i].by) /\ CurrentKey(provider[i].by) = k)}

Keys == {Key(provider[i]) : i \in 1..Len(provider)}

\* A poller died, the triple was sent twice and both inserts were attempted
C3_Witness ==
    /\ crashes > 0
    /\ \E k \in Keys : Cardinality(Attempted(k)) >= 2 /\ Cardinality(RowsOf(k)) = 1

\* C4: of the N insert_one attempts pollers make for one triple, exactly one
\* inserts its row (won) and the other N - 1 hit the unique key (lost).
C4_ExactlyOneWinner ==
    \A k \in Keys :
        Attempted(k) # {} =>
            /\ Cardinality(RowsOf(k)) = 1
            /\ \A r \in RowsOf(k) : \E i \in Attempted(k) : provider[i].by = deliveries[r].by

C4_Witness ==
    \E k \in Keys :
        \E i, j \in Attempted(k) : provider[i].by # provider[j].by

\* C5: a poller invokes the send pipeline for a triple only after its own
\* claim row for the triple is in the deliveries collection.
C5_ClaimRowBeforeSend ==
    [][\A p \in Pollers :
          (w[p].pc = "send" /\ w'[p].pc # "send" /\ provider' # provider) =>
              \E r \in RowsOf(CurrentKey(p)) : deliveries[r].by = p]_vars

\* C6: a poller that finds the row of its triple present, at find_one or at
\* insert_one, writes nothing (no row, no change to the existing row or to the
\* item), sends nothing and goes on with the next destination of the item.
C6_LoserSkipsSilently ==
    [][\A p \in Pollers :
          (/\ w'[p] # w[p]
           /\ w[p].pc \in {"find", "insert", "error"}
           /\ w[p].chat_ids # <<>>
           /\ RowsOf(CurrentKey(p)) # {}) =>
              /\ deliveries' = deliveries
              /\ scheduled' = scheduled
              /\ provider' = provider
              /\ w'[p].pc = "find"
              /\ w'[p].chat_ids = Tail(w[p].chat_ids)]_vars

\* A poller lost the first destination at insert_one and is at the second
C6_Witness ==
    \E p \in Pollers :
        /\ w[p].pc = "find"
        /\ Len(w[p].chat_ids) = 1
        /\ \E i \in 1..Len(provider) :
              /\ provider[i].by = p
              /\ provider[i].chatId # Head(w[p].chat_ids)
              /\ \E r \in RowsOf(Key(provider[i])) : deliveries[r].by # p

\* C7: every delivery a poller has started and finished has its own outcome
\* recorded in the row of its triple: status sent with the message ids the
\* pipeline returned, or status error with the error the pipeline raised.
C7_OutcomeRecorded ==
    \A i \in 1..Len(provider) :
        i \in Attempted(Key(provider[i])) =>
            \E r \in RowsOf(Key(provider[i])) :
                IF provider[i].ok
                THEN deliveries[r].status = "sent" /\ deliveries[r].messageIds = <<i>>
                ELSE deliveries[r].status = "error" /\ deliveries[r].error # ""

\* C8: an item whose status is done, ended or error is disabled.
C8_TerminalStatusDisabled ==
    \A id \in DOMAIN scheduled :
        scheduled[id].status \in {"done", "ended", "error"} => scheduled[id].enabled = FALSE

\* A poller's due query: it leaves asyncio.sleep with its batch
Queried(p) == w[p].pc = "sleep" /\ w'[p].pc = "loop"

\* C9: a tick selects an item only if, at the time of the due query, the item
\* is enabled, its status is scheduled, processing or null and its nextRunAt
\* is not later than now; and a tick dispatches only items it selected.
C9_OnlyDueEnabledSelected ==
    [][\A p \in Pollers :
          /\ Queried(p) =>
                \A i \in 1..Len(w'[p].cur) :
                    LET d == scheduled[w'[p].cur[i].id]
                    IN  /\ d.enabled = TRUE
                        /\ d.status \in {"scheduled", "processing", "null"}
                        /\ d.nextRunAt # Null
                        /\ d.nextRunAt <= now
          /\ (w[p].pc = "loop" /\ w'[p].pc = "resolve") => w'[p].doc = Head(w[p].cur)]_vars

\* A tick has just queried and left out a disabled item that is otherwise due
C9_Witness ==
    /\ w[MainPoller].pc = "loop"
    /\ w[MainPoller].cur = <<>>
    /\ w[MainPoller].now = now
    /\ \E id \in DOMAIN scheduled :
          /\ scheduled[id].enabled = FALSE
          /\ scheduled[id].status = "scheduled"
          /\ scheduled[id].nextRunAt # Null
          /\ scheduled[id].nextRunAt <= now

\* C10: a tick run against an item in status done does not select it, and no
\* Delivery row is inserted and no send pipeline invoked for an item while its
\* status is done.
C10_DoneItemNotRedelivered ==
    [][\A p \in Pollers :
          /\ Queried(p) =>
                \A i \in 1..Len(w'[p].cur) : scheduled[w'[p].cur[i].id].status # "done"
          /\ (w'[p] # w[p] /\ (deliveries' # deliveries \/ provider' # provider)) =>
                scheduled[w[p].doc.id].status # "done"]_vars

\* A tick has just queried while a done item was enabled again and past due
C10_Witness ==
    /\ w[MainPoller].pc = "loop"
    /\ w[MainPoller].cur = <<>>
    /\ w[MainPoller].now = now
    /\ \E id \in DOMAIN scheduled :
          /\ scheduled[id].status = "done"
          /\ scheduled[id].enabled = TRUE
          /\ scheduled[id].nextRunAt # Null
          /\ scheduled[id].nextRunAt <= now
          /\ RowsOf(<<id, -100, scheduled[id].nextRunAt>>) # {}

\* The poller's step out of "finish": the final update_one of the item
Finished(p) == w[p].pc = "finish" /\ w'[p].pc = "loop"

\* The rows, and the pipeline invocations, of one occurrence of an item
RowsOfRun(id, run_at) ==
    {r \in 1..Len(deliveries) :
        deliveries[r].scheduledId = id /\ deliveries[r].runAt = run_at}

SendsOfRun(id, run_at) ==
    {i \in 1..Len(provider) : provider[i].scheduledId = id /\ provider[i].runAt = run_at}

\* C11: when a tick is through with a due once item whose explicit targets hold
\* k distinct negative ids and every send of the occurrence succeeded, the
\* occurrence has exactly k Delivery rows, one per such id and all sent, and
\* the tick leaves the item done and disabled.
C11_OnceItemFullyDelivered ==
    [][\A p \in Pollers :
          (/\ Finished(p)
           /\ w[p].doc.scheduleType = "once"
           /\ w[p].doc.targetsMode = "explicit"
           /\ \A i \in SendsOfRun(w[p].doc.id, w[p].run_at) : provider[i].ok) =>
              LET id == w[p].doc.id
                  rows == RowsOfRun(id, w[p].run_at)
                  targets == {x \in Range(w[p].doc.targetChatIds) : x < 0}
              IN  /\ Cardinality(rows) = Cardinality(targets)
                  /\ \A x \in targets : \E r \in rows : deliveries[r].chatId = x
                  /\ \A r \in rows : deliveries[r].status = "sent"
                  /\ scheduled'[id].status = "done"
                  /\ scheduled'[id].enabled = FALSE]_vars

\* A once item with two destinations is done and disabled, both rows sent
C11_Witness ==
    \E id \in DOMAIN scheduled :
        /\ scheduled[id].scheduleType = "once"
        /\ scheduled[id].status = "done"
        /\ scheduled[id].enabled = FALSE
        /\ scheduled[id].nextRunAt # Null
        /\ Cardinality(RowsOfRun(id, scheduled[id].nextRunAt)) = 2
        /\ \A r \in RowsOfRun(id, scheduled[id].nextRunAt) : deliveries[r].status = "sent"

\* The step stores a nextRunAt computed from the cron expression of item id:
\* the final update of a tick, POST /api/messages or the write of a PATCH
ComputesNext(id) ==
    /\ scheduled'[id].scheduleType = "cron"
    /\ scheduled'[id].nextRunAt # Null
    /\ \/ id \notin DOMAIN scheduled
       \/ \E p \in Pollers :
             Finished(p) /\ w[p].doc.id = id /\ scheduled'[id].status = "scheduled"
       \/ api.pc = "patch" /\ api'.pc = "idle" /\ api.id = id

\* The step is the final update of a tick storing a nextRunAt for recurring
\* item id, for which an earlier final update had stored one
StoresAgain(id) ==
    /\ id \in DOMAIN scheduled
    /\ ComputesNext(id)
    /\ \E p \in Pollers : Finished(p) /\ w[p].doc.id = id
    /\ persisted[id].val # Null

\* C12 as stated: every nextRunAt computed for a recurring item is strictly
\* later than the clock it is computed at, and the nextRunAt values successive
\* ticks store for one item are strictly increasing.
C12_NextRunStrictlyIncreasing ==
    [][\A id \in DOMAIN scheduled' :
          /\ ComputesNext(id) => scheduled'[id].nextRunAt > now
          /\ StoresAgain(id) => scheduled'[id].nextRunAt > persisted[id].val]_vars

\* C12 amended: every nextRunAt computed for a recurring item is strictly later
\* than the clock it is computed at, and the nextRunAt a tick stores is
\* strictly later than the one the previous tick stored for the item unless an
\* admin request (run-now, PATCH) rewrote the item's nextRunAt in between.
C12_NextRunIncreasingBetweenApiWrites ==
    [][\A id \in DOMAIN scheduled' :
          /\ ComputesNext(id) => scheduled'[id].nextRunAt > now
          /\ (StoresAgain(id) /\ persisted[id].fresh) =>
                scheduled'[id].nextRunAt > persisted[id].val]_vars

\* Two ticks have dispatched a recurring item and the second has stored its
\* nextRunAt, no admin request in between
C12_Witness ==
    \E id \in DOMAIN scheduled :
        /\ scheduled[id].scheduleType = "cron"
        /\ persisted[id].fresh
        /\ scheduled[id].nextRunAt = persisted[id].val
        /\ requests = 1
        /\ \E r1, r2 \in 1..Len(deliveries) :
              /\ deliveries[r1].scheduledId = id
              /\ deliveries[r2].scheduledId = id
              /\ deliveries[r1].runAt < deliveries[r2].runAt

\* The first instant after clock t at which cron matches local time in tz
Occurrence(cron, tz, t) == Min({u \in t + 1 .. t + cron : (u - TzBehind(tz)) % cron = 0})

\* Item d has a cutoff and occurrence occ lies past it
PastCutoff(d, occ) == d.endAt # Null /\ occ > d.endAt

Ended(d) == d.status = "ended" /\ d.nextRunAt = Null /\ d.enabled = FALSE

C13_WitnessAtCutoff ==
    \E id \in DOMAIN scheduled :
        /\ scheduled[id].status = "scheduled"
        /\ scheduled[id].nextRunAt = scheduled[id].endAt
        /\ persisted[id] = [val |-> scheduled[id].endAt, fresh |-> TRUE]

\* The step stores a nextRunAt for item id: POST /api/messages, the write of a
\* PATCH that recomputes, run-now, or the final update of a tick
StoresNext(id) ==
    \/ id \notin DOMAIN scheduled
    \/ scheduled'[id].nextRunAt # scheduled[id].nextRunAt
    \/ /\ api.pc = "patch" /\ api'.pc = "idle" /\ api.id = id
       /\ PatchUpdate(api.existing, api.payload, now).ok
       /\ "nextRunAt" \in DOMAIN PatchUpdate(api.existing, api.payload, now).val
    \/ \E p \in Pollers :
          /\ Finished(p) /\ w[p].doc.id = id
          /\ "nextRunAt" \in DOMAIN FinalUpdate(w[p].doc, now)

\* C14 as stated: a nextRunAt, when stored by the API (create, PATCH, run-now)
\* or by the poller, for a once or a recurring item, is null or not earlier
\* than the clock it is computed at.
C14_NextRunNotBeforeComputed ==
    [][\A id \in DOMAIN scheduled' :
          (StoresNext(id) /\ scheduled'[id].nextRunAt # Null) =>
              scheduled'[id].nextRunAt >= now]_vars

\* C14 amended: a stored nextRunAt is null or not earlier than the clock it is
\* computed at, except that for a once item create and PATCH store the
\* configured runAt whether or not it is already past.
C14_NextRunNotBeforeComputedUnlessOnce ==
    [][\A id \in DOMAIN scheduled' :
          (StoresNext(id) /\ scheduled'[id].nextRunAt # Null) =>
              \/ scheduled'[id].nextRunAt >= now
              \/ /\ scheduled'[id].scheduleType = "once"
                 /\ scheduled'[id].nextRunAt = scheduled'[id].runAt
                 /\ \/ id \notin DOMAIN scheduled
                    \/ api.pc = "patch" /\ api'.pc = "idle" /\ api.id = id]_vars

\* A once item dispatched at the current clock, after its runAt, has been
\* patched since: its nextRunAt is the past runAt again
C14_Witness ==
    \E id \in DOMAIN scheduled :
        /\ scheduled[id].scheduleType = "once"
        /\ scheduled[id].status = "done"
        /\ scheduled[id].enabled = TRUE
        /\ scheduled[id].lastRunAt = now
        /\ scheduled[id].nextRunAt = scheduled[id].runAt
        /\ scheduled[id].nextRunAt < now

\* C15: when the resolver returns no destination for an item, the item's
\* status is no_targets when the tick is through with it.
C15_NoTargetsStatusHeld ==
    [][\A p \in Pollers :
          (Finished(p) /\ ResolveTargets(w[p].doc, chats) = <<>>) =>
              scheduled'[w[p].doc.id].status = "no_targets"]_vars

\* C16: an item whose explicit target list holds a positive id is never
\* dispatched, not even to the negative ids of the list.
C16_PositiveIdNeverDispatched ==
    \A i \in 1..Len(provider) :
        LET d == scheduled[provider[i].scheduledId]
        IN  d.targetsMode = "explicit" => \A x \in Range(d.targetChatIds) : x < 0

\* C17: the list the resolver returns holds only negative ids, in strictly
\* ascending order (so none twice), and holds exactly the negative ids of the
\* explicit list, or of the active rows of the registry in mode all.
C17_ResolvedNegativeUniqueAscending ==
    [][\A p \in Pollers :
          (w[p].pc = "resolve" /\ w'[p].pc # "resolve") =>
              LET d == w[p].doc
                  expected == IF d.targetsMode = "explicit"
                              THEN {x \in Range(d.targetChatIds) : x < 0}
                              ELSE {x \in ChatIdPool :
                                      x < 0 /\ [chatId |-> x, isActive |-> TRUE] \in chats}
                  ids == w'[p].chat_ids
              IN  /\ \A i \in 1..Len(ids) : ids[i] < 0
                  /\ \A i, j \in 1..Len(ids) : i < j => ids[i] < ids[j]
                  /\ Range(ids) = expected
                  /\ w'[p].pc = IF expected = {} THEN "finish" ELSE "find"]_vars

\* The resolver has turned the list [-100, -200] into [-200, -100]
C17_Witness ==
    /\ w[MainPoller].pc = "find"
    /\ w[MainPoller].doc.targetsMode = "explicit"
    /\ w[MainPoller].doc.targetChatIds = <<-100, -200>>
    /\ w[MainPoller].chat_ids = <<-200, -100>>

\* Poller p handles the exception the pipeline raised for its current triple
HandlesError(p) == w[p].pc = "error" /\ w'[p] # w[p]

\* Every destination of the item poller p has dispatched has a row
AllAttempted(p) ==
    \A cid \in Range(ResolveTargets(w[p].doc, chats)) :
        RowsOf(<<w[p].doc.id, cid, w[p].run_at>>) # {}

\* C18: when the pipeline raises for one destination, the poller inserts an
\* error row for that destination, changes no other row and not the item, and
\* goes on with the item's remaining destinations; when it is through with the
\* item every destination has been attempted (has a row).
C18_DestinationErrorContained ==
    /\ [][\A p \in Pollers :
             HandlesError(p) =>
                 /\ C3_RowsKept
                 /\ RowsOf(CurrentKey(p)) = {} =>
                       /\ Len(deliveries') = Len(deliveries) + 1
                       /\ Key(deliveries'[Len(deliveries')]) = CurrentKey(p)
                       /\ deliveries'[Len(deliveries')].status = "error"
                       /\ deliveries'[Len(deliveries')].error = w[p].err
                 /\ scheduled' = scheduled
                 /\ w'[p].pc = "find"
                 /\ w'[p].doc = w[p].doc
                 /\ w'[p].chat_ids = Tail(w[p].chat_ids)]_vars
    /\ [](\A p \in Pollers : w[p].pc = "finish" => AllAttempted(p))

\* The first destination of an item failed, the second was sent after it
C18_Witness ==
    /\ w[MainPoller].pc = "finish"
    /\ \E r1, r2 \in RowsOfRun(w[MainPoller].doc.id, w[MainPoller].run_at) :
          /\ r1 < r2
          /\ deliveries[r1].status = "error"
          /\ deliveries[r2].status = "sent"
          /\ deliveries[r1].chatId < deliveries[r2].chatId

\* C19: a tick goes to sleep only when it is through with every item its due
\* query selected: if one item's processing raises, no other selected item is
\* left unprocessed.
C19_OtherDueItemsStillProcessed ==
    [][\A p \in Pollers :
          (w[p].pc # "sleep" /\ w'[p].pc = "sleep") => Len(w[p].cur) <= 1]_vars

\* C20: when the tick is through with a recurring item whose cron expression
\* is missing or malformed, the item is in status error and disabled; and while
\* no admin request changes it, an item in status error stays as it is, is in
\* no due batch and has no pipeline invocation.
C20_ErrorItemStopped ==
    [][/\ \A p \in Pollers :
             (/\ Finished(p)
              /\ w[p].doc.scheduleType # "once"
              /\ w[p].doc.cron \in {Null, BadCron}) =>
                 /\ scheduled'[w[p].doc.id].status = "error"
                 /\ scheduled'[w[p].doc.id].enabled = FALSE
       /\ \A id \in DOMAIN scheduled :
             scheduled[id].status = "error" =>
                 /\ scheduled'[id] = scheduled[id]
                 /\ \A p \in Pollers :
                       Queried(p) => \A i \in 1..Len(w'[p].cur) : w'[p].cur[i].id # id
                 /\ provider' # provider =>
                       provider'[Len(provider')].scheduledId # id]_vars

\* An item is in status error and disabled, its nextRunAt is past, and a later
\* tick has queried and selected nothing
C20_Witness ==
    /\ w[MainPoller].pc = "loop"
    /\ w[MainPoller].cur = <<>>
    /\ \E id \in DOMAIN scheduled :
          /\ scheduled[id].status = "error"
          /\ scheduled[id].enabled = FALSE
          /\ scheduled[id].nextRunAt <= w[MainPoller].now
          /\ scheduled[id].lastRunAt < w[MainPoller].now
          /\ \E r \in 1..Len(deliveries) : deliveries[r].scheduledId = id

\* The pipeline hands its result to poller p
PipeEnds(p) == w[p].pc = "pipeline" /\ w'[p].pc # "pipeline"

\* C21: a text-only delivery makes one provider call, or two when the first
\* was answered with a rate limit, after one sleep of retryAfter + 1 seconds;
\* the delivery is recorded as sent when the last call succeeded and as error
\* when it failed.
C21_TextRetriedOnceAfterFloodWait ==
    [][\A p \in Pollers :
          /\ (PipeEnds(p) /\ pipe.kind = "text") =>
                LET c == pipe.calls
                IN  /\ Len(c) \in {1, 2}
                    /\ \A i \in 1..Len(c) : c[i].api = "send_message" /\ c[i].text = 0
                    /\ Len(c) = 1 => c[1].resp # "FloodWait" /\ pipe.sleeps = <<>>
                    /\ Len(c) = 2 => c[1].resp = "FloodWait" /\ pipe.sleeps = <<pipe.secs + 1>>
                    /\ w'[p].pc = IF c[Len(c)].resp = "ok" THEN "insert" ELSE "error"
          /\ (w[p].pc \in {"insert", "error"} /\ w'[p].pc = "find" /\ pipe.kind = "text") =>
                /\ Len(deliveries') = Len(deliveries) + 1
                /\ Key(deliveries'[Len(deliveries')]) = CurrentKey(p)
                /\ deliveries'[Len(deliveries')].status =
                      IF pipe.calls[Len(pipe.calls)].resp = "ok" THEN "sent" ELSE "error"]_vars

\* A text delivery was rate-limited, retried with success and recorded as sent
C21_Witness ==
    /\ pipe.pc = "left"
    /\ pipe.kind = "text"
    /\ Len(pipe.calls) = 2
    /\ pipe.calls[1].resp = "FloodWait"
    /\ pipe.calls[2].resp = "ok"
    /\ \E r \in 1..Len(deliveries) : deliveries[r].status = "sent"

\* C22: a media delivery whose grouped send failed with a transport error
\* raises only after the further tiers were tried and failed too: a second
\* grouped send, then text messages with link preview (caption, urls).
C22_MediaFallbackCascade ==
    [][\A p \in Pollers :
          (/\ PipeEnds(p)
           /\ pipe.kind = "media"
           /\ pipe.result = "raise"
           /\ \E i \in 1..Len(pipe.calls) :
                 /\ pipe.calls[i].api = "send_file"
                 /\ pipe.calls[i].resp = "Error"
                 /\ \A h \in 1..(i - 1) : pipe.calls[h].api # "send_file") =>
              \E j, k \in 1..Len(pipe.calls) :
                  /\ j < k
                  /\ pipe.calls[j].api = "send_file"
                  /\ \E i \in 1..(j - 1) : pipe.calls[i].api = "send_file"
                  /\ pipe.calls[k].api = "send_message"
                  /\ pipe.calls[k].preview]_vars

\* C23: a media delivery never handles more than 10 media items: only the
\* first 10 urls are downloaded, a grouped send carries at most 10 files and the
\* link messages name at most the first 10 urls; with more than 10 urls
\* supplied and every download and conversion succeeding, the grouped send
\* carries exactly the first 10.
C23_AtMostTenMedia ==
    \A p \in Pollers :
        w[p].pc = "pipeline" =>
            /\ \A f \in pipe.files : f[2] \in 1..10
            /\ \A i \in 1..Len(pipe.calls) :
                  /\ pipe.calls[i].media <= 10
                  /\ pipe.calls[i].text <= 10
                  /\ (/\ pipe.calls[i].api = "send_file"
                      /\ pipe.faults = 0
                      /\ w[p].doc.imageUrls > 10) =>
                         /\ pipe.calls[i].media = 10
                         /\ pipe.prepared = [j \in 1..10 |-> <<"jpeg", j>>]

\* More than 10 urls were supplied and a grouped send of 10 files has succeeded
C23_Witness ==
    /\ w[MainPoller].pc = "pipeline"
    /\ w[MainPoller].doc.imageUrls > 10
    /\ pipe.calls # <<>>
    /\ pipe.calls[1].api = "send_file"
    /\ pipe.calls[1].media = 10
    /\ pipe.calls[1].resp = "ok"

\* C24: when the media pipeline has returned or raised, no scratch file and
\* not the scratch directory is left.
C24_NoScratchLeft ==
    (pipe.pc \in {"done", "left"} /\ pipe.kind = "media") =>
        pipe.files = {} /\ pipe.dir = FALSE

\* The status changes of the state machine of an item: scheduled to processing,
\* and processing to one of the five outcomes.
SpecTransition(from, to) ==
    \/ from = "scheduled" /\ to = "processing"
    \/ from = "processing"
       /\ to \in {"done", "scheduled", "ended", "no_targets", "error"}

\* C25: every change the poller makes to an item's status is scheduled to
\* processing or processing to one of done, scheduled, ended, no_targets,
\* error; and when the tick is through with an item it is not in processing, a
\* once item is done, a recurring item is scheduled, ended or error.
C25_OnlySpecTransitions ==
    [][/\ \A id \in DOMAIN scheduled :
             scheduled'[id].status # scheduled[id].status =>
                 SpecTransition(scheduled[id].status, scheduled'[id].status)
       /\ \A p \in Pollers :
             Finished(p) =>
                 LET st == scheduled'[w[p].doc.id].status
                 IN  /\ st # "processing"
                     /\ w[p].doc.scheduleType = "once" => st = "done"
                     /\ w[p].doc.scheduleType # "once" =>
                            st \in {"scheduled", "ended", "error"}]_vars

\* Two results of a calculator are the same: both raise, or both return the
\* same instant (or both none)
SameResult(a, b) == a.ok = b.ok /\ (a.ok => a.val = b.val)

\* C26: for a once schedule each of the two calculators returns the
\* configured instant converted to UTC, whether or not it is past and whatever
\* the end cutoff is, and raises when the instant is missing; so the two
\* return the same result.
C26_OnceCalculatorsAgree ==
    (calc.pc = "input" /\ calc.backend # NotRun /\ calc.worker # NotRun) =>
        /\ SameResult(calc.backend, calc.worker)
        /\ \A res \in {calc.backend, calc.worker} :
              IF calc.run_at = NoDatetime THEN ~res.ok
              ELSE res.ok /\ res.val = ToUtc(calc.run_at)

\* The positions of a poller inside the loop over an item's destinations
Dispatching == {"find", "send", "insert", "error"}

\* C27: the poller enters an item by the step that writes status processing and
\* lastRunAt = the tick's now, a step that resolves no target and sends nothing;
\* the loop over the destinations is only entered from there through the
\* resolution; while in that loop the poller writes nothing to the item; and the
\* step that persists the item's next state is taken when no destination is
\* left and every resolved destination has been attempted.
C27_MarkedBeforeDispatchPersistedAfter ==
    [][\A p \in Pollers :
          /\ (w[p].pc # "resolve" /\ w'[p].pc = "resolve") =>
                 /\ w[p].pc = "loop"
                 /\ scheduled'[w'[p].doc.id].status = "processing"
                 /\ scheduled'[w'[p].doc.id].lastRunAt = w[p].now
                 /\ provider' = provider
                 /\ deliveries' = deliveries
          /\ (w[p].pc \notin Dispatching /\ w'[p].pc \in Dispatching) =>
                 w[p].pc = "resolve"
          /\ (w[p].pc \in Dispatching /\ w'[p] # w[p]) => scheduled' = scheduled
          /\ Finished(p) => w[p].chat_ids = <<>> /\ AllAttempted(p)]_vars

\* Both destinations of an item have been sent to, the item still as the mark
\* left it, its next state not yet persisted
C27_Witness ==
    LET p == MainPoller
    IN  /\ w[p].pc = "finish"
        /\ scheduled[w[p].doc.id].status = "processing"
        /\ scheduled[w[p].doc.id].lastRunAt = w[p].now
        /\ Len(provider) = 2
        /\ provider[1].chatId # provider[2].chatId
        /\ \A i \in 1..2 : provider[i].scheduledId = w[p].doc.id /\ provider[i].ok

\* The documents of a batch are in ascending order of nextRunAt
Ascending(cur) ==
    \A i, j \in 1..Len(cur) : i < j => cur[i].nextRunAt <= cur[j].nextRunAt

\* C28: the batch of a tick holds at most 25 documents in ascending order of
\* nextRunAt, they are the earliest of the due ones, the tick takes them from
\* the head of the batch one after the other and takes no other document: an
\* item is never processed after one with a later nextRunAt in the same tick.
C28_BatchCappedAndAscending ==
    /\ [](\A p \in Pollers :
            /\ Len(w[p].cur) <= BatchLimit
            /\ Ascending(w[p].cur)
            /\ w[p].pc \notin {"sleep", "loop"} =>
                   w[p].cur # <<>> /\ w[p].doc = Head(w[p].cur))
    /\ [][\A p \in Pollers :
            /\ (w[p].pc = "sleep" /\ w'[p].pc = "loop") =>
                   LET batch == w'[p].cur
                       rest == DueIds(scheduled, now) \ {batch[k].id : k \in 1..Len(batch)}
                   IN  /\ \A k \in 1..Len(batch) : batch[k].id \in DueIds(scheduled, now)
                       /\ rest # {} => Len(batch) = BatchLimit
                       /\ \A k \in 1..Len(batch) : \A id \in rest :
                              batch[k].nextRunAt <= scheduled[id].nextRunAt
            /\ (w[p].pc # "sleep" /\ w'[p].cur # w[p].cur) =>
                   \/ w'[p].pc = "sleep" /\ w'[p].cur = <<>>
                   \/ w[p].cur # <<>> /\ w'[p].cur = Tail(w[p].cur)]_vars

\* More than 25 items were due; the tick is at the last document of its batch,
\* and the one item it has not taken is the first one created, whose nextRunAt
\* is the latest
C28_Witness ==
    LET p == MainPoller
    IN  /\ Cardinality(DOMAIN scheduled) > BatchLimit
        /\ w[p].pc = "finish"
        /\ Len(w[p].cur) = 1
        /\ scheduled[1].status = "scheduled"
        /\ \A id \in DOMAIN scheduled :
              id # 1 => /\ scheduled[id].status # "scheduled"
                        /\ scheduled[id].nextRunAt < scheduled[1].nextRunAt

\* A tick has taken item id up: it is the document the poller is at
TakenUp(id) == \E p \in Pollers : w[p].pc \notin {"sleep", "loop"} /\ w[p].doc.id = id

\* C29: an item that is enabled, in status scheduled or processing, and whose
\* nextRunAt has come is eventually taken up by a tick, also when another due
\* item with an earlier nextRunAt fails every time a tick takes it up.
C29_DueItemEventuallyDispatched ==
    \A id \in {1, 2} : IsDue(scheduled[id], now) ~> TakenUp(id)

\* The triple poller p is at: its item, the destination at the head of its
\* list, the occurrence key of its tick
AtKey(p) == <<w[p].doc.id, Head(w[p].chat_ids), w[p].run_at>>

\* C30: the death of the poller changes neither the item nor the rows; the
\* next due query selects an item left in processing, with the nextRunAt it
\* had, and that is the occurrence key of the resumed dispatch; a destination
\* is sent to only if it is a resolved destination without a row for the key, a
\* destination with a row is skipped without a send or a write; and when the
\* tick is through with the item every resolved destination has a row.
C30_ResumeAfterCrash ==
    [][/\ crashes' # crashes => scheduled' = scheduled /\ deliveries' = deliveries
       /\ \A p \in Pollers :
             /\ (w[p].pc = "sleep" /\ w'[p].pc = "loop") =>
                    \A id \in DOMAIN scheduled :
                        (/\ scheduled[id].status = "processing"
                         /\ scheduled[id].enabled
                         /\ scheduled[id].nextRunAt # Null
                         /\ scheduled[id].nextRunAt <= now) =>
                            \E k \in 1..Len(w'[p].cur) :
                                /\ w'[p].cur[k].id = id
                                /\ w'[p].cur[k].nextRunAt = scheduled[id].nextRunAt
             /\ (w[p].pc = "loop" /\ w'[p].pc = "resolve") =>
                    w'[p].run_at = scheduled[w'[p].doc.id].nextRunAt
             /\ (provider' # provider /\ w'[p] # w[p]) =>
                    /\ RowsOf(AtKey(p)) = {}
                    /\ Head(w[p].chat_ids) \in Range(ResolveTargets(w[p].doc, chats))
             /\ (/\ w[p].pc = "find" /\ w[p].chat_ids # <<>> /\ w'[p] # w[p]
                 /\ crashes' = crashes
                 /\ RowsOf(AtKey(p)) # {}) =>
                    /\ w'[p].pc = "find" /\ w'[p].chat_ids = Tail(w[p].chat_ids)
                    /\ provider' = provider /\ deliveries' = deliveries
                    /\ scheduled' = scheduled
             /\ Finished(p) => AllAttempted(p)]_vars

\* A tick died on an item after the row of its first destination was written;
\* the next tick has selected the item again, resolved both destinations and
\* is at the first one, which has a row for the key, the second has none
C30_Witness ==
    LET p == MainPoller
    IN  /\ crashes > 0
        /\ w[p].pc = "find"
        /\ w[p].chat_ids = ResolveTargets(w[p].doc, chats)
        /\ Len(w[p].chat_ids) = 2
        /\ scheduled[w[p].doc.id].status = "processing"
        /\ RowsOf(AtKey(p)) # {}
        /\ RowsOf(<<w[p].doc.id, w[p].chat_ids[2], w[p].run_at>>) = {}

\* C31: with one poller that does not die, the send pipeline is invoked for a
\* triple only while the triple has no Delivery row, sent or error, and has
\* not been sent to before: at most once per triple over all ticks, and a
\* failed delivery is not tried again.
C31_SinglePollerSendsOncePerTriple ==
    [][provider' # provider =>
          LET e == provider'[Len(provider')]
          IN  /\ Len(provider') = Len(provider) + 1
              /\ RowsOf(Key(e)) = {}
              /\ SendsOf(Key(e)) = {}]_vars

\* A tick has stored the next run of a recurring item whose delivery failed;
\* a later tick has selected the item with the same occurrence key and is at
\* the destination that holds the error row, nothing sent yet in this tick
C31_Witness ==
    LET p == MainPoller
    IN  /\ w[p].pc = "find"
        /\ w[p].chat_ids # <<>>
        /\ w[p].chat_ids = ResolveTargets(w[p].doc, chats)
        /\ persisted[w[p].doc.id].val # Null
        /\ \E r \in RowsOf(AtKey(p)) : deliveries[r].status = "error"

\* C32: a Delivery row of status error means that no provider call of that
\* delivery succeeded: if the caption, a link message or the grouped send
\* reached the destination, the row is a sent row that lists message ids.
C32_ErrorRowMeansNothingSent ==
    \A r \in 1..Len(deliveries) :
        (\E i \in 1..Len(pipe.calls) : pipe.calls[i].resp = "ok") =>
            /\ deliveries[r].status = "sent"
            /\ deliveries[r].messageIds # <<>>

\* Poller p passes over the destination at the head of its list: find_one
\* found a row of the triple
Skips(p) ==
    /\ w[p].pc = "find" /\ w'[p].pc = "find"
    /\ w[p].chat_ids # <<>> /\ w'[p].chat_ids = Tail(w[p].chat_ids)

\* C33: the occurrence key with which a tick takes up a recurring item (the
\* item's nextRunAt) is later than the key of every Delivery row the item has
\* from earlier dispatches, so the keys of successive dispatches differ; no
\* destination of a recurring item is passed over because of an earlier row
\* and every successful send gets its row; and the batch of a tick holds an item
\* at most once, so a tick dispatches one occurrence of it, with that one key.
C33_OccurrenceKeysDistinct ==
    [][\A p \in Pollers :
          /\ (w[p].pc = "loop" /\ w'[p].pc = "resolve"
                /\ w'[p].doc.scheduleType = "cron") =>
                 /\ w'[p].run_at = scheduled[w'[p].doc.id].nextRunAt
                 /\ \A r \in 1..Len(deliveries) :
                        deliveries[r].scheduledId = w'[p].doc.id =>
                            deliveries[r].runAt < w'[p].run_at
          /\ (w[p].doc.id # 0 /\ w[p].doc.scheduleType = "cron") =>
                 /\ ~Skips(p)
                 /\ (w[p].pc = "insert" /\ w'[p].pc = "find") =>
                        /\ Len(deliveries') = Len(deliveries) + 1
                        /\ Key(deliveries'[Len(deliveries')]) = AtKey(p)
          /\ (w[p].pc = "sleep" /\ w'[p].pc = "loop") =>
                 \A i, j \in 1..Len(w'[p].cur) :
                     i # j => w'[p].cur[i].id # w'[p].cur[j].id]_vars

\* The second occurrence of a recurring item has been sent to the group the
\* first one was sent to, each with its own row, one clock unit was missed
\* in between or none
C33_Witness ==
    LET p == MainPoller
    IN  /\ w[p].pc = "finish"
        /\ w[p].doc.scheduleType = "cron"
        /\ Len(deliveries) = 2
        /\ deliveries[1].chatId = deliveries[2].chatId
        /\ deliveries[1].scheduledId = deliveries[2].scheduledId
        /\ deliveries[1].runAt < deliveries[2].runAt
        /\ deliveries[2].runAt = w[p].run_at
        /\ deliveries[1].status = "sent" /\ deliveries[2].status = "sent"

\* Item id is as run_message_now leaves it, for the occurrence k that has
\* come: enabled, in status scheduled, nextRunAt = k; and a tick is processing
\* the item (it has marked it processing, so the status is the request's)
RunRequested(id, k) ==
    /\ scheduled[id].enabled
    /\ scheduled[id].status = "scheduled"
    /\ scheduled[id].nextRunAt = k
    /\ k <= now
    /\ \E p \in Pollers : w[p].pc \notin {"sleep", "loop"} /\ w[p].doc.id = id

\* A tick has taken item id up with the occurrence key k
TakenUpFor(id, k) ==
    \E p \in Pollers :
        w[p].pc \notin {"sleep", "loop"} /\ w[p].doc.id = id /\ w[p].run_at = k

\* C34: once run_message_now has stored its update while a tick was processing
\* the item, a tick eventually takes the item up for the occurrence the
\* request stored (or the provider log of the model is full, where the
\* observation ends).
C34_RunNowEventuallyDispatched ==
    \A k \in 0..MaxTime :
        RunRequested(1, k) ~> (TakenUpFor(1, k) \/ Len(provider) >= MaxSends)

\* C35: when a PATCH that sets enabled = true has stored a nextRunAt that is
\* not null for an item that was done, ended or error, the item is enabled and
\* in a status the due query selects (scheduled, processing or none).
C35_ReenabledItemEligible ==
    [][(/\ api.pc = "patch" /\ api'.pc = "idle"
        /\ "enabled" \in DOMAIN api.payload /\ api.payload.enabled = TRUE
        /\ PatchUpdate(api.existing, api.payload, now).ok
        /\ api.id \in DOMAIN scheduled'
        /\ scheduled[api.id].status \in {"done", "ended", "error"}
        /\ scheduled'[api.id].nextRunAt # Null) =>
           /\ scheduled'[api.id].enabled
           /\ scheduled'[api.id].status \in {"scheduled", "processing", "null"}]_vars

\* C36: a media reference that is an existing local file path is never deleted
\* by send_images_safe: every local file the item refers to still exists at
\* every point of the pipeline and after it has ended
C36_LocalFileNeverDeleted ==
    pipe.pc # "idle" => \A i \in pipe.outside : Loc(i) \in pipe.kept

\* C37: every provider send call is preceded by the throttle, so any two
\* consecutive provider send calls of the process are at least
\* min_delay_seconds apart
C37_SendCallsSpacedByMinDelay ==
    pipe.pc # "idle" =>
        \A i \in 2..Len(pipe.calls) : pipe.calls[i].at - pipe.calls[i - 1].at >= MinDelay

\* C38: registering a discovered chat never fails and never takes away the
\* entry of another chat: every group-class chat that had a discovery event
\* has its own active registry entry, also when two chats have the same
\* normalized title
C38_EveryDiscoveredChatRegistered ==
    /\ ~disc.raised
    /\ \A c \in disc.seen : \E r \in chats : r.chatId = c /\ r.isActive

\* C39: a pending attach-mode insert session is finalized at most once, and by
\* timeout only 60 seconds or more after it was opened: the timeout task of an
\* earlier, discarded session never finalizes the newer session, and /done
\* and the timeout never both create a scheduled document for one session
C39_SessionFinalizedOnceAfterWindow ==
    \A j \in 1..Len(ins.docs) :
        LET d == ins.docs[j]
        IN  /\ d.by = "timeout" => d.at >= d.opened + InsertWindow /\ d.task = d.session
            /\ \A k \in 1..Len(ins.docs) : ins.docs[k].session = d.session => k = j

============================================================================
